---------------------------- MODULE Spec2Model ----------------------------
(***************************************************************************)
(* Model of the spatial subsystem of pdfExtraction:                        *)
(*   services/pdf_processor.py              word records of a page         *)
(*   services/coordinate_table_extractor.py CoordinateTableExtractor       *)
(*   services/spatial_preprocessor.py       SpatialPreprocessor            *)
(*                                                                         *)
(* Conventions.                                                            *)
(*  - A Python str is a sequence of one-character strings.                 *)
(*  - Optional values: None is the empty tuple, a present value v is <<v>>.*)
(*  - A Python dict is the sequence of its (key, value) items in insertion *)
(*    order, keys unique.                                                  *)
(*  - Coordinates are integers.  A Python mean sum/len is never rounded:   *)
(*    it is kept as the pair (sum, len) and compared by cross              *)
(*    multiplication.  Midpoints (a+b)/2 are taken with \div; the page     *)
(*    grids below hold only multiples of 4, for which every midpoint the   *)
(*    code takes is exact.                                                 *)
(*  - float('inf') is the number Inf, larger than every coordinate.        *)
(***************************************************************************)
EXTENDS Integers, Sequences, FiniteSets, TLC

None == <<>>
Some(v) == <<v>>

abs(x) == IF x < 0 THEN -x ELSE x

(***************************************************************************)
(* Python str operations used by the two services.                         *)
(***************************************************************************)
UpperCase == <<"A","B","C","D","E","F","G","H","I","J","K","L","M",
               "N","O","P","Q","R","S","T","U","V","W","X","Y","Z">>
LowerCase == <<"a","b","c","d","e","f","g","h","i","j","k","l","m",
               "n","o","p","q","r","s","t","u","v","w","x","y","z">>
Digits == {"0","1","2","3","4","5","6","7","8","9"}
Whitespace == {" ", "\t", "\n"}

IsUpperChar(c) == \E i \in 1..26 : UpperCase[i] = c
IsLowerChar(c) == \E i \in 1..26 : LowerCase[i] = c

lower_char(c) ==
    IF IsUpperChar(c) THEN LowerCase[CHOOSE i \in 1..26 : UpperCase[i] = c]
    ELSE c

\* str.lower()
lower(s) == [i \in 1..Len(s) |-> lower_char(s[i])]

\* str.isupper(): at least one cased character and no lowercase one
isupper(s) ==
    /\ \E i \in 1..Len(s) : IsUpperChar(s[i])
    /\ \A i \in 1..Len(s) : ~IsLowerChar(s[i])

\* str.isalpha() / str.isdigit(): non-empty and every character in the class
isalpha(s) ==
    /\ Len(s) > 0
    /\ \A i \in 1..Len(s) : IsUpperChar(s[i]) \/ IsLowerChar(s[i])

isdigit(s) == Len(s) > 0 /\ \A i \in 1..Len(s) : s[i] \in Digits

\* str.strip()
strip(s) ==
    LET keep == {i \in 1..Len(s) : s[i] \notin Whitespace}
    IN  IF keep = {} THEN <<>>
        ELSE LET lo == CHOOSE i \in keep : \A j \in keep : i <= j
                 hi == CHOOSE i \in keep : \A j \in keep : j <= i
             IN  SubSeq(s, lo, hi)

startswith(s, p) == Len(p) <= Len(s) /\ SubSeq(s, 1, Len(p)) = p
endswith(s, p) == Len(p) <= Len(s) /\ SubSeq(s, Len(s) - Len(p) + 1, Len(s)) = p

\* sub in s
contains(s, sub) ==
    \E i \in 0..(Len(s) - Len(sub)) : SubSeq(s, i + 1, i + Len(sub)) = sub

\* s.replace(c, '') for each character c of chars
remove_chars(s, chars) == SelectSeq(s, LAMBDA c : c \notin chars)

\* sep.join(parts)
RECURSIVE join(_, _)
join(sep, parts) ==
    IF Len(parts) = 0 THEN <<>>
    ELSE IF Len(parts) = 1 THEN parts[1]
    ELSE parts[1] \o sep \o join(sep, Tail(parts))

\* str.split(): the maximal runs of non-whitespace characters
RECURSIVE split_stripped(_)
split_stripped(t) ==
    LET ws == {i \in 1..Len(t) : t[i] \in Whitespace}
    IN  IF t = <<>> THEN <<>>
        ELSE IF ws = {} THEN <<t>>
        ELSE LET k == CHOOSE i \in ws : \A j \in ws : i <= j
             IN  <<SubSeq(t, 1, k - 1)>> \o split_stripped(strip(SubSeq(t, k + 1, Len(t))))

split(s) == split_stripped(strip(s))

(***************************************************************************)
(* sorted(s, key=...): Python's sort is stable.  keys[i] is the key of     *)
(* s[i], a tuple of integers compared lexicographically.                   *)
(***************************************************************************)
KeyLess(a, b) ==
    \E i \in 1..Len(a) :
        /\ a[i] < b[i]
        /\ \A j \in 1..(i - 1) : a[j] = b[j]

sorted(s, keys) ==
    LET n == Len(s)
        before(i, j) == KeyLess(keys[i], keys[j]) \/ (keys[i] = keys[j] /\ i < j)
        rank(j) == 1 + Cardinality({i \in 1..n : before(i, j)})
    IN  [r \in 1..n |-> s[CHOOSE j \in 1..n : rank(j) = r]]


(***************************************************************************)
(* Python dict: the sequence of its items in insertion order.              *)
(***************************************************************************)
DictKeys(d) == [i \in 1..Len(d) |-> d[i][1]]
DictHas(d, k) == \E i \in 1..Len(d) : d[i][1] = k
DictGet(d, k) == d[CHOOSE i \in 1..Len(d) : d[i][1] = k][2]

\* d[k] = v: a new key is appended, an existing key keeps its position
DictSet(d, k, v) ==
    IF DictHas(d, k)
    THEN [i \in 1..Len(d) |-> IF d[i][1] = k THEN <<k, v>> ELSE d[i]]
    ELSE Append(d, <<k, v>>)

\* {k: v for k in keys}
RECURSIVE DictFromKeys(_, _)
DictFromKeys(keys, v) ==
    IF keys = <<>> THEN <<>>
    ELSE DictSet(DictFromKeys(SubSeq(keys, 1, Len(keys) - 1), v), keys[Len(keys)], v)

(***************************************************************************)
(* Word records (pdf_processor.py).                                        *)
(***************************************************************************)
\* one word_data record of extract_word_coordinates (lines 64-77); the
\* fields no service reads are left out
word_data(text, x0, y0, x1, y1) ==
    [text |-> text,
     x0 |-> x0, y0 |-> y0, x1 |-> x1, y1 |-> y1,
     center_x |-> (x0 + x1) \div 2,
     center_y |-> (y0 + y1) \div 2]

\* the key of word_list.sort(key=lambda w: (w["y0"], w["x0"]))
reading_key(w) == <<w.y0, w.x0>>

Inf == 1000000

(***************************************************************************)
(* CoordinateTableExtractor                                                *)
(***************************************************************************)
seq_max(s) == CHOOSE m \in {s[i] : i \in 1..Len(s)} : \A i \in 1..Len(s) : s[i] <= m
seq_min(s) == CHOOSE m \in {s[i] : i \in 1..Len(s)} : \A i \in 1..Len(s) : m <= s[i]

RECURSIVE seq_sum(_)
seq_sum(s) == IF s = <<>> THEN 0 ELSE s[1] + seq_sum(Tail(s))

texts_of(ws) == [i \in 1..Len(ws) |-> ws[i].text]

\* mutant of first_matching_window: the words of a window need not be on one
\* line
first_window_with_text(header_text, words, tol, k) ==
    LET window(i) == SubSeq(words, i, i + k - 1)
        matched == {i \in 1..(Len(words) - k + 1) :
                      strip(join(<<" ">>, texts_of(window(i)))) = header_text}
    IN  IF matched = {} THEN <<>>
        ELSE window(CHOOSE i \in matched : \A j \in matched : i <= j)

\* _find_header_words, lines 140-154: the first window of k consecutive words
\* whose joined text is the header and whose center_y span at most tol
first_matching_window(header_text, words, tol, k) ==
    LET window(i) == SubSeq(words, i, i + k - 1)
        ys(i) == [j \in 1..k |-> words[i + j - 1].center_y]
        matched == {i \in 1..(Len(words) - k + 1) :
                      /\ strip(join(<<" ">>, texts_of(window(i)))) = header_text
                      /\ seq_max(ys(i)) - seq_min(ys(i)) <= tol}
    IN  IF matched = {} THEN <<>>
        ELSE window(CHOOSE i \in matched : \A j \in matched : i <= j)

\* mutant of find_header_words_of: a single-word header is located at its
\* first occurrence only
find_first_header_word(header_text, words, tol, header_words) ==
    IF header_words = 1
    THEN LET found == SelectSeq(words, LAMBDA w : strip(w.text) = header_text)
         IN  IF found = <<>> THEN <<>> ELSE <<found[1]>>
    ELSE first_matching_window(header_text, words, tol, header_words)

\* lines 135-154, with header_words = len(header_text.split()) and
\* header_text stripped
find_header_words_of(header_text, words, tol, header_words) ==
    IF header_words = 1
    THEN SelectSeq(words, LAMBDA w : strip(w.text) = header_text)
    ELSE first_matching_window(header_text, words, tol, header_words)

\* _find_header_words; header_text holds at least one word
_find_header_words(header_text, words, tol) ==
    find_header_words_of(strip(header_text), words, tol, Len(split(header_text)))

\* lines 82-94: the position of a header located at header_words
header_position(header, header_words) ==
    LET left_x == seq_min([i \in 1..Len(header_words) |-> header_words[i].x0])
        right_x == seq_max([i \in 1..Len(header_words) |-> header_words[i].x1])
    IN  [header |-> header, left_x |-> left_x, right_x |-> right_x,
         center_x |-> (left_x + right_x) \div 2]

\* lines 82, 88: a header that is not located adds no position
add_position(header, header_words, rest) ==
    IF header_words = <<>> THEN rest
    ELSE <<header_position(header, header_words)>> \o rest

\* lines 77-94 of _establish_column_boundaries: the located headers, in the
\* order of table_headers
RECURSIVE header_positions(_, _, _)
header_positions(table_headers, words, tol) ==
    IF table_headers = <<>> THEN <<>>
    ELSE add_position(table_headers[1],
                      _find_header_words(table_headers[1], words, tol),
                      header_positions(Tail(table_headers), words, tol))

\* mutant of sorted_headers: the sort by x position is left out
sorted_headers_unsorted(positions) == positions

\* line 100: sorted(header_positions, key=lambda h: h['center_x'])
sorted_headers(positions) ==
    sorted(positions, [i \in 1..Len(positions) |-> <<positions[i].center_x>>])

\* mutant of column_boundary: the first column starts at its header's left
\* edge instead of the document's left edge
column_boundary_from_header_edge(sh, i) ==
    [header |-> sh[i].header,
     left_x |-> IF i = 1 THEN sh[i].left_x
                ELSE (sh[i - 1].center_x + sh[i].center_x) \div 2,
     right_x |-> IF i = Len(sh) THEN Inf
                 ELSE (sh[i].center_x + sh[i + 1].center_x) \div 2,
     header_center |-> sh[i].center_x]

\* lines 105-127: the boundary of the i-th header in x order
column_boundary(sh, i) ==
    LET n == Len(sh)
        left_boundary ==
            IF i = 1 THEN 0
            ELSE (sh[i - 1].center_x + sh[i].center_x) \div 2
        right_boundary ==
            IF i = 1
            THEN IF i + 1 <= n THEN (sh[i].center_x + sh[i + 1].center_x) \div 2 ELSE Inf
            ELSE IF i = n THEN Inf
            ELSE (sh[i].center_x + sh[i + 1].center_x) \div 2
    IN  [header |-> sh[i].header, left_x |-> left_boundary, right_x |-> right_boundary,
         header_center |-> sh[i].center_x]

\* lines 103-129
boundaries_of(sh) == [i \in 1..Len(sh) |-> column_boundary(sh, i)]

_establish_column_boundaries(table_headers, words, tol) ==
    boundaries_of(sorted_headers(header_positions(table_headers, words, tol)))

\* _group_words_into_rows, lines 166-180: rows of [words, y_center]
RECURSIVE group_rows(_, _, _, _)
group_rows(sorted_words, current_row, rows, tol) ==
    IF sorted_words = <<>> THEN Append(rows, current_row)
    ELSE IF abs(sorted_words[1].center_y - current_row.y_center) <= tol
    THEN group_rows(Tail(sorted_words),
                    [current_row EXCEPT !.words = Append(@, sorted_words[1])], rows, tol)
    ELSE group_rows(Tail(sorted_words),
                    [words |-> <<sorted_words[1]>>, y_center |-> sorted_words[1].center_y],
                    Append(rows, current_row), tol)

\* lines 167-180, from the words sorted by center_y
rows_of_sorted(sorted_words, tol) ==
    group_rows(Tail(sorted_words),
               [words |-> <<sorted_words[1]>>, y_center |-> sorted_words[1].center_y],
               <<>>, tol)

\* lines 183-184: each row's words sorted by center_x
sort_rows(grouped) ==
    [r \in 1..Len(grouped) |->
        [grouped[r] EXCEPT !.words = sorted(@, [i \in 1..Len(@) |-> <<@[i].center_x>>])]]

_group_words_into_rows(words, tol) ==
    IF words = <<>> THEN <<>>
    ELSE sort_rows(rows_of_sorted(
             sorted(words, [i \in 1..Len(words) |-> <<words[i].center_y>>]), tol))

\* line 193: the mean of the words' center_y, as the pair (sum, len)
mean_center_y(header_words) ==
    [sum |-> seq_sum([i \in 1..Len(header_words) |-> header_words[i].center_y]),
     len |-> Len(header_words)]

\* _find_header_row_y: the mean center_y of the first located header's words;
\* None when no header is located
RECURSIVE header_row_y_of(_, _, _, _)
header_row_y_of(header_words, table_headers, words, tol) ==
    IF header_words # <<>> THEN Some(mean_center_y(header_words))
    ELSE IF table_headers = <<>> THEN None
    ELSE header_row_y_of(_find_header_words(table_headers[1], words, tol),
                         Tail(table_headers), words, tol)

_find_header_row_y(table_headers, words, tol) ==
    header_row_y_of(<<>>, table_headers, words, tol)

\* line 52: header_row_y and abs(row['y_center'] - header_row_y) < self.tolerance
\* (a mean of 0.0 is falsy)
is_header_row(row, hry, tol) ==
    /\ hry # None
    /\ hry[1].sum # 0
    /\ abs(row.y_center * hry[1].len - hry[1].sum) < tol * hry[1].len

\* mutant of assigned_column: no fallback to the closest column
assigned_column_no_fallback(word, boundaries) ==
    LET inside == {i \in 1..Len(boundaries) :
                     /\ boundaries[i].left_x <= word.center_x
                     /\ word.center_x < boundaries[i].right_x}
    IN  IF inside # {}
        THEN boundaries[CHOOSE i \in inside : \A j \in inside : i <= j].header
        ELSE None

\* mutant of assigned_column: the interval is open on the left and closed on
\* the right
assigned_column_closed_right(word, boundaries) ==
    LET inside == {i \in 1..Len(boundaries) :
                     /\ boundaries[i].left_x < word.center_x
                     /\ word.center_x <= boundaries[i].right_x}
        dist(i) == abs(boundaries[i].header_center - word.center_x)
    IN  IF inside # {}
        THEN boundaries[CHOOSE i \in inside : \A j \in inside : i <= j].header
        ELSE boundaries[CHOOSE i \in 1..Len(boundaries) :
                           /\ \A j \in 1..Len(boundaries) : dist(i) <= dist(j)
                           /\ \A j \in 1..(i - 1) : dist(j) > dist(i)].header

\* lines 208-221: the column a word is assigned to
assigned_column(word, boundaries) ==
    LET inside == {i \in 1..Len(boundaries) :
                     /\ boundaries[i].left_x <= word.center_x
                     /\ word.center_x < boundaries[i].right_x}
        dist(i) == abs(boundaries[i].header_center - word.center_x)
    IN  IF inside # {}
        THEN boundaries[CHOOSE i \in inside : \A j \in inside : i <= j].header
        ELSE boundaries[CHOOSE i \in 1..Len(boundaries) :
                           /\ \A j \in 1..Len(boundaries) : dist(i) <= dist(j)
                           /\ \A j \in 1..(i - 1) : dist(j) > dist(i)].header

\* lines 205-224: the words of the row that go to column (an empty column
\* name is falsy and takes no word)
words_of_column(column, row_words, boundaries) ==
    SelectSeq(row_words, LAMBDA w : column # <<>> /\ assigned_column(w, boundaries) = column)

\* mutant of fill_groups: only the columns that received a word get a key
fill_groups_nonempty(empty, row_words, boundaries) ==
    SelectSeq([k \in 1..Len(empty) |->
                  <<empty[k][1], words_of_column(empty[k][1], row_words, boundaries)>>],
              LAMBDA g : g[2] # <<>>)

\* lines 203-224: the dict column -> words assigned to it, in row order
fill_groups(empty, row_words, boundaries) ==
    [k \in 1..Len(empty) |->
        <<empty[k][1], words_of_column(empty[k][1], row_words, boundaries)>>]

column_word_groups_of(row_words, boundaries) ==
    fill_groups(DictFromKeys([i \in 1..Len(boundaries) |-> boundaries[i].header], <<>>),
                row_words, boundaries)

\* mutant of text_or_none: the empty text is kept as the cell value
text_or_empty(combined_text) == Some(combined_text)

\* line 232
text_or_none(combined_text) ==
    IF combined_text # <<>> THEN Some(combined_text) ELSE None

\* lines 227-234: a word group as a cell value
cell_value(word_group) ==
    IF word_group # <<>>
    THEN text_or_none(strip(join(<<" ">>, texts_of(
             sorted(word_group, [i \in 1..Len(word_group) |-> <<word_group[i].x0>>])))))
    ELSE None

\* lines 200, 227-236
row_data_of(groups) ==
    [k \in 1..Len(groups) |-> <<groups[k][1], cell_value(groups[k][2])>>]

_extract_row_data(row_words, boundaries) ==
    row_data_of(column_word_groups_of(row_words, boundaries))

(***************************************************************************)
(* SpatialPreprocessor                                                     *)
(***************************************************************************)
proximity_threshold_multiplier == 2

field_keywords ==
    << <<"n","a","m","e">>, <<"i","d">>, <<"n","u","m","b","e","r">>, <<"n","o">>,
       <<"c","o","d","e">>, <<"d","a","t","e">>, <<"t","i","m","e">>,
       <<"s","t","a","t","u","s">>, <<"t","y","p","e">>, <<"g","r","o","u","p">>,
       <<"c","l","a","s","s">>, <<"c","a","t","e","g","o","r","y">>, <<"d","e","p","t">>,
       <<"d","e","p","a","r","t","m","e","n","t">>, <<"t","i","t","l","e">>,
       <<"p","o","s","i","t","i","o","n">>, <<"e","m","p","l","o","y","e","e">>,
       <<"e","m","p">>, <<"s","t","a","f","f">>, <<"p","e","r","s","o","n">>,
       <<"u","s","e","r">>, <<"c","u","s","t","o","m","e","r">>, <<"c","l","i","e","n","t">>,
       <<"a","d","d","r","e","s","s">>, <<"p","h","o","n","e">>, <<"e","m","a","i","l">>,
       <<"s","s","n">>, <<"t","a","x">>, <<"s","a","l","a","r","y">>, <<"r","a","t","e">>,
       <<"a","m","o","u","n","t">>, <<"t","o","t","a","l">>, <<"s","u","m">>,
       <<"b","a","l","a","n","c","e">>, <<"p","a","y","m","e","n","t">>,
       <<"a","c","c","o","u","n","t">>, <<"r","e","f","e","r","e","n","c","e">>,
       <<"r","e","f">> >>

field_endings ==
    << <<":">>, <<"#">>, <<"n","o">>, <<"i","d">>, <<"c","o","d","e">>, <<"n","a","m","e">>,
       <<"d","a","t","e">>, <<"t","y","p","e">>, <<"s","t","a","t","u","s">>,
       <<"g","r","o","u","p">> >>

\* mutant of common_fields: employee and term are not in the list
common_fields_without_term ==
    << <<"s","t","a","t","u","s">>, <<"e","m","p">>,
       <<"p","o","s","i","t","i","o","n">>, <<"t","i","t","l","e">>,
       <<"g","e","n","d","e","r">>, <<"m","a","r","i","t","a","l">>,
       <<"h","i","r","e">>, <<"s","u","p","e","r","v","i","s","o","r">>,
       <<"d","e","p","a","r","t","m","e","n","t">>,
       <<"d","i","v","i","s","i","o","n">>, <<"l","o","c","a","t","i","o","n">> >>

common_fields ==
    << <<"s","t","a","t","u","s">>, <<"e","m","p">>, <<"e","m","p","l","o","y","e","e">>,
       <<"p","o","s","i","t","i","o","n">>, <<"t","i","t","l","e">>,
       <<"g","e","n","d","e","r">>, <<"m","a","r","i","t","a","l">>, <<"h","i","r","e">>,
       <<"t","e","r","m">>, <<"s","u","p","e","r","v","i","s","o","r">>,
       <<"d","e","p","a","r","t","m","e","n","t">>, <<"d","i","v","i","s","i","o","n">>,
       <<"l","o","c","a","t","i","o","n">> >>

last_field_words ==
    { <<"i","d">>, <<"n","o">>, <<"t","y","p","e">>, <<"c","o","d","e">>,
      <<"d","a","t","e">>, <<"s","t","a","t","u","s">>, <<"g","r","o","u","p">>,
      <<"n","a","m","e">>, <<"t","i","t","l","e">> }

EMPTY == <<"[","E","M","P","T","Y","]">>

\* re.match(r'\d{n}', text[from:]) and single characters of a pattern
match_digits(text, from, n) ==
    /\ from + n - 1 <= Len(text)
    /\ \A i \in from..(from + n - 1) : text[i] \in Digits

char_at(text, i, c) == i <= Len(text) /\ text[i] = c

\* re.match(r'\d{1,2}/\d{1,2}/\d{4}', text)
match_date(text) ==
    \E a \in 1..2, b \in 1..2 :
        /\ match_digits(text, 1, a)
        /\ char_at(text, a + 1, "/")
        /\ match_digits(text, a + 2, b)
        /\ char_at(text, a + b + 2, "/")
        /\ match_digits(text, a + b + 3, 4)

\* re.match(r'\d{3}-\d{3}-\d{4}', text)
match_phone(text) ==
    /\ match_digits(text, 1, 3)
    /\ char_at(text, 4, "-")
    /\ match_digits(text, 5, 3)
    /\ char_at(text, 8, "-")
    /\ match_digits(text, 9, 4)

\* re.match(r'\d{3}-\d{2}-\d{4}', text)
match_ssn(text) ==
    /\ match_digits(text, 1, 3)
    /\ char_at(text, 4, "-")
    /\ match_digits(text, 5, 2)
    /\ char_at(text, 7, "-")
    /\ match_digits(text, 8, 4)

has_field_keyword(lowered) ==
    \E k \in 1..Len(field_keywords) : contains(lowered, field_keywords[k])

\* is_obvious_value_pattern, lines 361-390, on the stripped text
obvious_value(text) ==
    \/ Len(text) = 1 /\ isalpha(text)
    \/ isdigit(remove_chars(text, {".", ",", "-", "/"}))
    \/ startswith(text, <<"$">>)
    \/ endswith(text, <<"%">>)
    \/ match_date(text)
    \/ match_phone(text)
    \/ match_ssn(text)
    \/ isupper(text) /\ Len(text) <= 6 /\ ~has_field_keyword(lower(text))

is_obvious_value_pattern(text) == obvious_value(strip(text))

\* line 330: the words that start with a capital and are not all capitals
title_case_count(words) ==
    Cardinality({i \in 1..Len(words) :
                   /\ words[i] # <<>>
                   /\ IsUpperChar(words[i][1])
                   /\ ~isupper(words[i])})

\* line 343: field_words[-1].lower() in [...]
last_word_is_field(field_words) ==
    /\ field_words # <<>>
    /\ lower(field_words[Len(field_words)]) \in last_field_words

\* mutant of field_pattern: the keyword and ending rules are tried before the
\* obvious-value check
field_pattern_keywords_first(cluster_text, original_text, words) ==
    \/ has_field_keyword(cluster_text)
    \/ \E e \in 1..Len(field_endings) : endswith(cluster_text, field_endings[e])
    \/ /\ ~is_obvious_value_pattern(original_text)
       /\ \/ /\ Len(words) >= 2
             /\ title_case_count(words) * 10 >= Len(words) * 7
          \/ \E c \in 1..Len(common_fields) : contains(cluster_text, common_fields[c])
          \/ last_word_is_field(split(original_text))

\* is_field_pattern, lines 314-347: cluster_text is the lowercased joined
\* text, original_text the joined text, words the words' texts
field_pattern(cluster_text, original_text, words) ==
    IF is_obvious_value_pattern(original_text) THEN FALSE
    ELSE \/ has_field_keyword(cluster_text)
         \/ \E e \in 1..Len(field_endings) : endswith(cluster_text, field_endings[e])
         \/ /\ Len(words) >= 2
            /\ title_case_count(words) * 10 >= Len(words) * 7
         \/ \E c \in 1..Len(common_fields) : contains(cluster_text, common_fields[c])
         \/ last_word_is_field(split(original_text))

cluster_text_of(word_cluster) == join(<<" ">>, texts_of(word_cluster))

is_field_pattern(word_cluster) ==
    IF word_cluster = <<>> THEN FALSE
    ELSE field_pattern(lower(cluster_text_of(word_cluster)),
                       cluster_text_of(word_cluster),
                       texts_of(word_cluster))

y_tolerance == 5

\* line 211: current_line.sort(key=lambda w: w["x0"])
sort_line(current_line) ==
    sorted(current_line, [i \in 1..Len(current_line) |-> <<current_line[i].x0>>])

\* mutant of group_lines: the last line is not added (lines 219-221 left out)
RECURSIVE group_lines_last_lost(_, _, _, _, _)
group_lines_last_lost(sorted_words, current_line, current_y, lines, y_tol) ==
    IF sorted_words = <<>> THEN lines
    ELSE IF abs(sorted_words[1].y0 - current_y) <= y_tol
    THEN group_lines_last_lost(Tail(sorted_words), Append(current_line, sorted_words[1]),
                               current_y, lines, y_tol)
    ELSE group_lines_last_lost(Tail(sorted_words), <<sorted_words[1]>>, sorted_words[1].y0,
                               Append(lines, sort_line(current_line)), y_tol)

\* mutant of group_lines: the reference y follows the last word of the line
RECURSIVE group_lines_chained(_, _, _, _, _)
group_lines_chained(sorted_words, current_line, current_y, lines, y_tol) ==
    IF sorted_words = <<>>
    THEN IF current_line # <<>> THEN Append(lines, sort_line(current_line)) ELSE lines
    ELSE IF abs(sorted_words[1].y0 - current_y) <= y_tol
    THEN group_lines_chained(Tail(sorted_words), Append(current_line, sorted_words[1]),
                             sorted_words[1].y0, lines, y_tol)
    ELSE group_lines_chained(Tail(sorted_words), <<sorted_words[1]>>, sorted_words[1].y0,
                             Append(lines, sort_line(current_line)), y_tol)

\* group_words_into_lines, lines 205-221: the walk over the sorted words
RECURSIVE group_lines(_, _, _, _, _)
group_lines(sorted_words, current_line, current_y, lines, y_tol) ==
    IF sorted_words = <<>>
    THEN IF current_line # <<>> THEN Append(lines, sort_line(current_line)) ELSE lines
    ELSE IF abs(sorted_words[1].y0 - current_y) <= y_tol
    THEN group_lines(Tail(sorted_words), Append(current_line, sorted_words[1]),
                     current_y, lines, y_tol)
    ELSE group_lines(Tail(sorted_words), <<sorted_words[1]>>, sorted_words[1].y0,
                     Append(lines, sort_line(current_line)), y_tol)

\* lines 201-223, from the words sorted by (y0, x0)
lines_of_sorted(sorted_words, y_tol) ==
    group_lines(Tail(sorted_words), <<sorted_words[1]>>, sorted_words[1].y0, <<>>, y_tol)

group_words_into_lines(words, y_tol) ==
    IF words = <<>> THEN <<>>
    ELSE lines_of_sorted(sorted(words, [i \in 1..Len(words) |-> <<words[i].y0, words[i].x0>>]),
                         y_tol)

\* lines 270-274: the gaps between consecutive words
spacings_of(line_words) ==
    [i \in 1..(Len(line_words) - 1) |-> line_words[i + 1].x0 - line_words[i].x1]

\* mutant of cluster_loop: the last cluster is not added (line 295 left out)
RECURSIVE cluster_loop_last_lost(_, _, _, _, _, _)
cluster_loop_last_lost(line_words, i, current_cluster, clusters, total, count) ==
    IF i > Len(line_words) THEN clusters
    ELSE IF (line_words[i].x0 - line_words[i - 1].x1) * count
              <= total * proximity_threshold_multiplier
    THEN cluster_loop_last_lost(line_words, i + 1, Append(current_cluster, line_words[i]),
                                clusters, total, count)
    ELSE cluster_loop_last_lost(line_words, i + 1, <<line_words[i]>>,
                                Append(clusters, current_cluster), total, count)

\* lines 279-296: avg_spacing is total / count, and
\* spacing <= avg_spacing * multiplier is spacing * count <= total * multiplier
RECURSIVE cluster_loop(_, _, _, _, _, _)
cluster_loop(line_words, i, current_cluster, clusters, total, count) ==
    IF i > Len(line_words) THEN Append(clusters, current_cluster)
    ELSE IF (line_words[i].x0 - line_words[i - 1].x1) * count
              <= total * proximity_threshold_multiplier
    THEN cluster_loop(line_words, i + 1, Append(current_cluster, line_words[i]),
                      clusters, total, count)
    ELSE cluster_loop(line_words, i + 1, <<line_words[i]>>,
                      Append(clusters, current_cluster), total, count)

\* lines 268-296, with the spacings of the line
cluster_with_spacings(line_words, spacings) ==
    IF spacings = <<>> THEN <<line_words>>
    ELSE cluster_loop(line_words, 2, <<line_words[1]>>, <<>>, seq_sum(spacings), Len(spacings))

cluster_words_by_proximity(line_words) ==
    IF Len(line_words) <= 1 THEN <<line_words>>
    ELSE cluster_with_spacings(line_words, spacings_of(line_words))

line_contains_field_patterns(line_words) ==
    /\ line_words # <<>>
    /\ \E i \in 1..Len(line_words) : is_field_pattern(<<line_words[i]>>)

\* mutant of is_value_line_for_fields: the alignment tolerance is 50, that of
\* process_field_line_with_values
is_value_line_within_50(field_line, value_line) ==
    /\ field_line # <<>>
    /\ value_line # <<>>
    /\ \E f \in 1..Len(field_line) :
          \E v \in 1..Len(value_line) :
              abs(field_line[f].center_x - value_line[v].center_x) <= 50

\* is_value_line_for_fields; value_line is None or a line
is_value_line_for_fields(field_line, value_line) ==
    /\ field_line # <<>>
    /\ value_line # <<>>
    /\ \E f \in 1..Len(field_line) :
          \E v \in 1..Len(value_line) :
              abs(field_line[f].center_x - value_line[v].center_x) <= 30

\* lines 157, 165: a cluster's mean center_x as the pair (sum, len)
cluster_center_x(cluster) ==
    [sum |-> seq_sum([i \in 1..Len(cluster) |-> cluster[i].center_x]), len |-> Len(cluster)]

\* line 166: abs(field_center_x - value_center_x) as the fraction num / den
center_distance(f, v) ==
    [num |-> abs(f.sum * v.len - v.sum * f.len), den |-> f.len * v.len]

\* mutant of closer: the first cluster within the tolerance is kept
closer_first_within(distance, min_distance) ==
    /\ distance.num <= 50 * distance.den
    /\ min_distance = None

\* line 168: distance <= tolerance and distance < min_distance
\* (min_distance is None for float('inf'))
closer(distance, min_distance) ==
    /\ distance.num <= 50 * distance.den
    /\ \/ min_distance = None
       \/ distance.num * min_distance[1].den < min_distance[1].num * distance.den

\* lines 160-171: the loop over the value clusters; the result is best_value
RECURSIVE best_value_loop(_, _, _, _)
best_value_loop(field_center_x, value_clusters, best_value, min_distance) ==
    IF value_clusters = <<>> THEN best_value
    ELSE IF /\ closer(center_distance(field_center_x, cluster_center_x(value_clusters[1])),
                      min_distance)
            /\ ~is_field_pattern(value_clusters[1])
    THEN best_value_loop(field_center_x, Tail(value_clusters),
                         Some(cluster_text_of(value_clusters[1])),
                         Some(center_distance(field_center_x,
                                              cluster_center_x(value_clusters[1]))))
    ELSE best_value_loop(field_center_x, Tail(value_clusters), best_value, min_distance)

best_value_of(field_cluster, value_clusters) ==
    best_value_loop(cluster_center_x(field_cluster), value_clusters, None, None)

\* lines 173-176: "if best_value" is false for None and for ''
field_value_pair(field_name, best_value) ==
    IF best_value # None /\ best_value # Some(<<>>)
    THEN field_name \o <<":", "\t">> \o best_value[1]
    ELSE field_name \o <<":", "\t">> \o EMPTY

\* lines 155-180: the text of one cluster of the field line
field_line_part(field_cluster, value_clusters) ==
    IF is_field_pattern(field_cluster)
    THEN field_value_pair(cluster_text_of(field_cluster),
                          best_value_of(field_cluster, value_clusters))
    ELSE cluster_text_of(field_cluster)

\* lines 147-149
value_clusters_of(value_line) ==
    IF value_line # <<>> THEN cluster_words_by_proximity(value_line) ELSE <<>>

\* lines 152-182
pair_clusters(field_clusters, value_clusters) ==
    join(<<" ", " ", " ", " ">>,
         [k \in 1..Len(field_clusters) |-> field_line_part(field_clusters[k], value_clusters)])

process_field_line_with_values(field_line, value_line) ==
    IF field_line = <<>> THEN <<>>
    ELSE pair_clusters(cluster_words_by_proximity(field_line), value_clusters_of(value_line))

\* lines 407-418, with field_index the first position of the cluster
format_at(field_name, field_index, all_clusters) ==
    IF field_index < Len(all_clusters)
    THEN IF is_field_pattern(all_clusters[field_index + 1])
         THEN field_name \o <<":", "\t">> \o EMPTY
         ELSE field_name \o <<":", "\t">> \o cluster_text_of(all_clusters[field_index + 1])
    ELSE field_name \o <<":", "\t">> \o EMPTY

\* format_as_field_cluster: all_clusters.index(field_cluster) raises ValueError
\* when the cluster is not in the list
format_as_field_cluster(field_cluster, all_clusters) ==
    IF \E i \in 1..Len(all_clusters) : all_clusters[i] = field_cluster
    THEN format_at(cluster_text_of(field_cluster),
                   CHOOSE i \in 1..Len(all_clusters) :
                       /\ all_clusters[i] = field_cluster
                       /\ \A j \in 1..(i - 1) : all_clusters[j] # field_cluster,
                   all_clusters)
    ELSE cluster_text_of(field_cluster) \o <<":", "\t">> \o EMPTY

\* lines 243-251
line_part(cluster, word_clusters) ==
    IF is_field_pattern(cluster) THEN format_as_field_cluster(cluster, word_clusters)
    ELSE cluster_text_of(cluster)

\* lines 242-253
format_clusters(word_clusters) ==
    join(<<" ", " ", " ", " ">>,
         [k \in 1..Len(word_clusters) |-> line_part(word_clusters[k], word_clusters)])

process_line_for_fields(line_words) ==
    IF line_words = <<>> THEN <<>>
    ELSE format_clusters(cluster_words_by_proximity(line_words))

(***************************************************************************)
(* ResultMerger.  A page result is the record of its page_number (from     *)
(* page_metadata), extracted_data and table_data, the last two None when   *)
(* the key is absent.  A field value is None for null and Some(text)       *)
(* otherwise.                                                              *)
(***************************************************************************)
\* line 101: field_value is not None and str(field_value).strip()
has_value(field_value) == field_value # None /\ strip(field_value[1]) # <<>>

\* lines 102-119: one item of extracted_data
process_field(processed_fields, field_name, field_value, page_num) ==
    IF ~has_value(field_value) THEN processed_fields
    ELSE IF DictHas(processed_fields, field_name)
    THEN IF Len(field_value[1]) > Len(DictGet(processed_fields, field_name).value[1])
         THEN DictSet(processed_fields, field_name,
                      [value |-> field_value, source_page |-> page_num,
                       conflict_detected |-> TRUE])
         ELSE DictSet(processed_fields, field_name,
                      [DictGet(processed_fields, field_name) EXCEPT !.conflict_detected = TRUE])
    ELSE DictSet(processed_fields, field_name,
                 [value |-> field_value, source_page |-> page_num,
                  conflict_detected |-> FALSE])

\* _process_page_form_fields, lines 98-120: the loop over the items
RECURSIVE process_fields(_, _, _)
process_fields(processed_fields, items, page_num) ==
    IF items = <<>> THEN processed_fields
    ELSE process_fields(process_field(processed_fields, items[1][1], items[1][2], page_num),
                        Tail(items), page_num)

_process_page_form_fields(extracted_data, page_num) ==
    process_fields(<<>>, extracted_data, page_num)

\* dict.update(other)
RECURSIVE DictUpdate(_, _)
DictUpdate(d, other) ==
    IF other = <<>> THEN d
    ELSE DictUpdate(DictSet(d, other[1][1], other[1][2]), Tail(other))

\* lines 131-138: the collection of a table name seen for the first time
new_collection(table) ==
    [table_name |-> table.table_name, headers |-> table.headers, rows |-> <<>>,
     source_pages |-> <<>>, row_count_by_page |-> <<>>]

collection_of(table_collections, table) ==
    IF DictHas(table_collections, table.table_name)
    THEN DictGet(table_collections, table.table_name)
    ELSE new_collection(table)

\* lines 141-144: the rows of one table of the page are added
add_page_rows(collection, page_rows, page_num) ==
    [collection EXCEPT
        !.rows = @ \o page_rows,
        !.source_pages = Append(@, page_num),
        !.row_count_by_page = DictSet(@, page_num, Len(page_rows))]

\* _process_page_table_data, lines 128-144: the loop over the page's tables
RECURSIVE _process_page_table_data(_, _, _)
_process_page_table_data(tables, table_collections, page_num) ==
    IF tables = <<>> THEN table_collections
    ELSE _process_page_table_data(
             Tail(tables),
             DictSet(table_collections, tables[1].table_name,
                     add_page_rows(collection_of(table_collections, tables[1]),
                                   tables[1].rows, page_num)),
             page_num)

\* sorted(table_data['source_pages'])
sorted_pages(source_pages) ==
    sorted(source_pages, [i \in 1..Len(source_pages) |-> <<source_pages[i]>>])

\* lines 153-164: one finalized table
finalized_table(collection) ==
    [table_name |-> collection.table_name,
     headers |-> collection.headers,
     rows |-> collection.rows,
     metadata |-> [total_rows |-> Len(collection.rows),
                   source_pages |-> sorted_pages(collection.source_pages),
                   rows_by_page |-> collection.row_count_by_page,
                   spans_multiple_pages |-> Len(collection.source_pages) > 1]]

\* _finalize_table_collections
_finalize_table_collections(table_collections) ==
    [i \in 1..Len(table_collections) |-> finalized_table(table_collections[i][2])]

\* len(page_result.get(key, {})) and len(page_result.get(key, []))
len_or_zero(value) == IF value = None THEN 0 ELSE Len(value[1])

\* lines 19-20: sorted(page_results, key=page_number)
sorted_by_page_number(results) ==
    sorted(results, [i \in 1..Len(results) |-> <<results[i].page_number>>])

(***************************************************************************)
(* FileStorage (storage.py).  A Document is the record of its id and       *)
(* current_step, the fields the requests set; the file holds the list of   *)
(* the documents' dicts as JSON, or text that is no JSON.                  *)
(***************************************************************************)
\* Document.to_dict and Document.from_dict
to_dict(doc) == << <<"id", doc.id>>, <<"current_step", doc.current_step>> >>
from_dict(data) == [id |-> DictGet(data, "id"), current_step |-> DictGet(data, "current_step")]

\* json.dump(data, f): the text of a list of dicts
json_text(data) == [json |-> TRUE, data |-> data]

\* the file after open(self.storage_file, 'w'): empty
truncated == [json |-> FALSE, data |-> <<>>]

\* _load_documents, lines 134-140: a file that holds no JSON gives []
_load_documents(file) ==
    IF file.json THEN [i \in 1..Len(file.data) |-> from_dict(file.data[i])]
    ELSE <<>>

\* update_document, lines 162-165: the first document with the id is replaced
replace_document(documents, document) ==
    [i \in 1..Len(documents) |->
        IF documents[i].id = document.id /\ \A j \in 1..(i - 1) : documents[j].id # document.id
        THEN document
        ELSE documents[i]]

\* _save_documents, lines 144-145, written from the start of a file that
\* another thread has written since this thread opened it: a longer text
\* keeps its tail and is no JSON any more
written_over(file, data) ==
    IF file.json /\ Len(file.data) > Len(data) THEN truncated
    ELSE json_text(data)

(***************************************************************************)
(* The pages and requests explored.                                        *)
(***************************************************************************)
MaxWords == 3

Code == <<"C","o","d","e">>
Amount == <<"A","m","o","u","n","t">>
STD == <<"S","T","D">>

TableTexts == {Code, Amount, STD}
TableX0 == {-40, 80, 280}
TableY0 == {-4, 1, 16}
\* every word of a page is 40 wide and 8 high
TableWords == {word_data(t, x, y, x + 40, y + 8) : t \in TableTexts, x \in TableX0, y \in TableY0}

\* the header lists a caller passes: one or two of the header strings
TableHeaderLists ==
    {<<h>> : h \in {Code, Amount}} \cup {<<g, h>> : g \in {Code, Amount}, h \in {Code, Amount}}

Tolerances == {5}

Name_ == <<"N","a","m","e",":">>
John == <<"J","o","h","n">>
Doe == <<"D","o","e">>

FormTexts == {Name_, John, Doe}
FormX0 == {0, 40, 100, 132}
FormY0 == {0, 20}
FormWords == {word_data(t, x, y, x + 40, y + 8) : t \in FormTexts, x \in FormX0, y \in FormY0}

VARIABLES
    pc,                 \* where the running call stands
    word_coordinates,   \* the page's word list
    table_headers,      \* extract_table_data's argument
    tolerance,          \* CoordinateTableExtractor.tolerance
    column_boundaries,  \* locals of extract_table_data
    rows,
    header_row_y,
    row_index,          \* the next row of "for row in rows" (1-based)
    table_data,
    column_word_groups, \* local of the last _extract_row_data call
    extracted_row,      \* history: the index of the row of that call, 0 before it
    source_rows,        \* history: for each record of table_data, the index of its row
    lines,              \* locals of preprocess_document and process_multiline_fields
    line_i,             \* the cursor i of process_multiline_fields (1-based)
    formatted_lines,
    result,             \* preprocess_document's return value
    formatted_from,     \* history: for each formatted line, the index of its line
    value_sources,      \* history: the lines a field line's output took a value from
    line_words,         \* cluster_words_by_proximity's argument
    clusters,           \* and its return value
    call,               \* the last direct call: its name, argument and return value
    calls,              \* the number of direct calls made on the instances
    given,              \* history: the constructor's arguments
    seen_clusters,      \* history: the lines clustered so far, each with its clusters
    page_results,       \* merge_multipage_results' argument
    sorted_results,     \* locals of merge_multipage_results
    merge_i,            \* the next element of "for page_result in sorted_results"
    form_fields,
    table_collections,
    merged_result,
    storage_file,       \* the content of FileStorage.storage_file
    requests,           \* the requests running on the storage, one per thread
    served,             \* the number of requests begun
    completed           \* history: the add_document and update_document calls returned

tvars == <<table_headers, tolerance, column_boundaries, rows, header_row_y,
           row_index, table_data, column_word_groups, extracted_row, source_rows>>

pvars == <<lines, line_i, formatted_lines, result, formatted_from, value_sources,
           line_words, clusters>>

cvars == <<call, calls, given, seen_clusters>>

mvars == <<page_results, sorted_results, merge_i, form_fields, table_collections,
           merged_result>>

svars == <<storage_file, requests, served, completed>>

\* the variables of ResultMerger and FileStorage
xvars == <<mvars, svars>>

vars == <<pc, word_coordinates, tvars, pvars, cvars, xvars>>

\* no merge has run
MergeIdle ==
    /\ page_results = <<>>
    /\ sorted_results = <<>>
    /\ merge_i = 0
    /\ form_fields = <<>>
    /\ table_collections = <<>>
    /\ merged_result = None

\* no request was made on the storage
StorageIdle ==
    /\ storage_file = <<>>
    /\ requests = <<>>
    /\ served = 0
    /\ completed = <<>>

OthersIdle == MergeIdle /\ StorageIdle

\* no direct call has been made
CallsIdle ==
    /\ call = None
    /\ calls = 0
    /\ given = None
    /\ seen_clusters = <<>>

\* no SpatialPreprocessor call has run
PreIdle ==
    /\ lines = <<>>
    /\ line_i = 0
    /\ formatted_lines = <<>>
    /\ result = None
    /\ formatted_from = <<>>
    /\ value_sources = {}
    /\ line_words = <<>>
    /\ clusters = <<>>

InitTable ==
    /\ pc = "page"
    /\ word_coordinates = <<>>
    /\ table_headers \in TableHeaderLists
    /\ tolerance \in Tolerances
    /\ column_boundaries = <<>>
    /\ rows = <<>>
    /\ header_row_y = None
    /\ row_index = 0
    /\ table_data = <<>>
    /\ column_word_groups = <<>>
    /\ extracted_row = 0
    /\ source_rows = <<>>
    /\ PreIdle
    /\ CallsIdle
    /\ OthersIdle

\* extract_word_coordinates delivers the page's words in (y0, x0) order:
\* one more word w of the page is read
extract_word_coordinates(w) ==
    /\ pc = "page"
    /\ Len(word_coordinates) < MaxWords
    /\ IF word_coordinates = <<>> THEN TRUE
       ELSE ~KeyLess(reading_key(w), reading_key(word_coordinates[Len(word_coordinates)]))
    /\ word_coordinates' = Append(word_coordinates, w)
    /\ UNCHANGED pc

\* the pages of the table runs hold no two words at the same (y0, x0)
TableExtractWords ==
    /\ \E w \in TableWords :
        /\ \A i \in 1..Len(word_coordinates) :
              reading_key(word_coordinates[i]) # reading_key(w)
        /\ extract_word_coordinates(w)
    /\ UNCHANGED <<tvars, pvars, cvars, xvars>>

\* extract_table_data, lines 31-32: nothing to extract
ExtractReturnsEmptyInput ==
    /\ pc = "page"
    /\ table_headers = <<>> \/ word_coordinates = <<>>
    /\ pc' = "returned"
    /\ table_data' = <<>>
    /\ UNCHANGED <<word_coordinates, table_headers, tolerance, column_boundaries, rows,
                   header_row_y, row_index, column_word_groups, extracted_row, source_rows,
                   pvars, cvars, xvars>>

\* lines 38-41: no header located
ExtractReturnsNoBoundaries ==
    /\ pc = "page"
    /\ table_headers # <<>> /\ word_coordinates # <<>>
    /\ _establish_column_boundaries(table_headers, word_coordinates, tolerance) = <<>>
    /\ pc' = "returned"
    /\ table_data' = <<>>
    /\ UNCHANGED <<word_coordinates, table_headers, tolerance, column_boundaries, rows,
                   header_row_y, row_index, column_word_groups, extracted_row, source_rows,
                   pvars, cvars, xvars>>

\* lines 38-48: boundaries, rows and the header row's y
ExtractBegin ==
    /\ pc = "page"
    /\ table_headers # <<>> /\ word_coordinates # <<>>
    /\ \E cb \in {_establish_column_boundaries(table_headers, word_coordinates, tolerance)} :
        /\ cb # <<>>
        /\ column_boundaries' = cb
    /\ rows' = _group_words_into_rows(word_coordinates, tolerance)
    /\ header_row_y' = _find_header_row_y(table_headers, word_coordinates, tolerance)
    /\ row_index' = 1
    /\ table_data' = <<>>
    /\ pc' = "rows"
    /\ UNCHANGED <<word_coordinates, table_headers, tolerance, column_word_groups,
                   extracted_row, source_rows, pvars, cvars, xvars>>

\* lines 50-53: the header row is skipped
ExtractSkipHeaderRow ==
    /\ pc = "rows"
    /\ row_index <= Len(rows)
    /\ is_header_row(rows[row_index], header_row_y, tolerance)
    /\ row_index' = row_index + 1
    /\ UNCHANGED <<pc, word_coordinates, table_headers, tolerance, column_boundaries, rows,
                   header_row_y, table_data, column_word_groups, extracted_row, source_rows,
                   pvars, cvars, xvars>>

\* lines 57-59: a record whose cells are all None is not kept
row_kept(row_data) == \E k \in 1..Len(row_data) : row_data[k][2] # None

\* lines 54-59: a data row (a row always holds a word)
ExtractRow ==
    /\ pc = "rows"
    /\ row_index <= Len(rows)
    /\ ~is_header_row(rows[row_index], header_row_y, tolerance)
    /\ rows[row_index].words # <<>>
    /\ \E groups \in {column_word_groups_of(rows[row_index].words, column_boundaries)} :
        /\ column_word_groups' = groups
        /\ extracted_row' = row_index
        /\ \E row_data \in {row_data_of(groups)} :
            IF row_kept(row_data)
            THEN /\ table_data' = Append(table_data, row_data)
                 /\ source_rows' = Append(source_rows, row_index)
            ELSE UNCHANGED <<table_data, source_rows>>
    /\ row_index' = row_index + 1
    /\ UNCHANGED <<pc, word_coordinates, table_headers, tolerance, column_boundaries, rows,
                   header_row_y, pvars, cvars, xvars>>

\* line 61
ExtractReturn ==
    /\ pc = "rows"
    /\ row_index > Len(rows)
    /\ pc' = "returned"
    /\ UNCHANGED <<word_coordinates, tvars, pvars, cvars, xvars>>

NextTable ==
    \/ TableExtractWords
    \/ ExtractReturnsEmptyInput
    \/ ExtractReturnsNoBoundaries
    \/ ExtractBegin
    \/ ExtractSkipHeaderRow
    \/ ExtractRow
    \/ ExtractReturn

SpecTable == InitTable /\ [][NextTable]_vars

(***************************************************************************)
(* SpatialPreprocessor.preprocess_document, and the field detection of      *)
(* app.py that groups a page's lines and clusters each of them.            *)
(***************************************************************************)
\* no extract_table_data call runs
TableIdle ==
    /\ table_headers = <<>>
    /\ tolerance = 5
    /\ column_boundaries = <<>>
    /\ rows = <<>>
    /\ header_row_y = None
    /\ row_index = 0
    /\ table_data = <<>>
    /\ column_word_groups = <<>>
    /\ extracted_row = 0
    /\ source_rows = <<>>

InitPre ==
    /\ pc = "page"
    /\ word_coordinates = <<>>
    /\ TableIdle
    /\ PreIdle
    /\ CallsIdle
    /\ OthersIdle

PreExtractWords ==
    /\ \E w \in FormWords : extract_word_coordinates(w)
    /\ UNCHANGED <<tvars, pvars, cvars, xvars>>

\* preprocess_document, lines 38-39
PreprocessEmpty ==
    /\ pc = "page"
    /\ word_coordinates = <<>>
    /\ result' = Some(<<>>)
    /\ pc' = "returned"
    /\ UNCHANGED <<word_coordinates, tvars, lines, line_i, formatted_lines, formatted_from,
                   value_sources, line_words, clusters, cvars, xvars>>

\* preprocess_document line 42 and app.py line 645; process_multiline_fields
\* lines 59-60
GroupLines ==
    /\ pc = "page"
    /\ word_coordinates # <<>>
    /\ lines' = group_words_into_lines(word_coordinates, y_tolerance)
    /\ line_i' = 1
    /\ formatted_lines' = <<>>
    /\ pc' = "lines"
    /\ UNCHANGED <<word_coordinates, tvars, result, formatted_from, value_sources,
                   line_words, clusters, cvars, xvars>>

\* line 69: next_line = lines[i + 1] if i + 1 < len(lines) else None
next_line_of(all_lines, i) == IF i + 1 <= Len(all_lines) THEN all_lines[i + 1] ELSE None

\* the field line's output takes a value from the value line (lines 155-174)
takes_value(field_clusters, value_clusters) ==
    \E k \in 1..Len(field_clusters) :
        /\ is_field_pattern(field_clusters[k])
        /\ best_value_of(field_clusters[k], value_clusters) \notin {None, Some(<<>>)}

\* the lines a value is taken from when lines[i] is formatted with next_line
value_sources_of(i, field_line, next_line) ==
    IF takes_value(cluster_words_by_proximity(field_line), value_clusters_of(next_line))
    THEN {i + 1} ELSE {}

\* lines 67-76: a field line and its value line are consumed together
FieldLineWithValueLine ==
    /\ pc = "lines"
    /\ line_i <= Len(lines)
    /\ line_contains_field_patterns(lines[line_i])
    /\ \E next_line \in {next_line_of(lines, line_i)} :
        /\ next_line # None
        /\ is_value_line_for_fields(lines[line_i], next_line)
        /\ formatted_lines' =
              Append(formatted_lines, process_field_line_with_values(lines[line_i], next_line))
        /\ value_sources' = value_sources \cup value_sources_of(line_i, lines[line_i], next_line)
    /\ formatted_from' = Append(formatted_from, line_i)
    /\ line_i' = line_i + 2
    /\ UNCHANGED <<pc, word_coordinates, tvars, lines, result, line_words, clusters, cvars, xvars>>

\* lines 67-70, 77-79: a field line is consumed alone
FieldLineAlone ==
    /\ pc = "lines"
    /\ line_i <= Len(lines)
    /\ line_contains_field_patterns(lines[line_i])
    /\ \E next_line \in {next_line_of(lines, line_i)} :
        /\ ~(next_line # None /\ is_value_line_for_fields(lines[line_i], next_line))
        /\ formatted_lines' =
              Append(formatted_lines, process_field_line_with_values(lines[line_i], next_line))
        /\ value_sources' = value_sources \cup value_sources_of(line_i, lines[line_i], next_line)
    /\ formatted_from' = Append(formatted_from, line_i)
    /\ line_i' = line_i + 1
    /\ UNCHANGED <<pc, word_coordinates, tvars, lines, result, line_words, clusters, cvars, xvars>>

\* lines 80-85: a line without field patterns
RegularLine ==
    /\ pc = "lines"
    /\ line_i <= Len(lines)
    /\ ~line_contains_field_patterns(lines[line_i])
    /\ \E formatted_line \in {process_line_for_fields(lines[line_i])} :
        IF strip(formatted_line) # <<>>
        THEN /\ formatted_lines' = Append(formatted_lines, formatted_line)
             /\ formatted_from' = Append(formatted_from, line_i)
        ELSE UNCHANGED <<formatted_lines, formatted_from>>
    /\ line_i' = line_i + 1
    /\ UNCHANGED <<pc, word_coordinates, tvars, lines, result, value_sources, line_words,
                   clusters, cvars, xvars>>

\* process_multiline_fields line 85, preprocess_document line 47
PreprocessReturn ==
    /\ pc = "lines"
    /\ line_i > Len(lines)
    /\ result' = Some(join(<<"\n">>, formatted_lines))
    /\ pc' = "returned"
    /\ UNCHANGED <<word_coordinates, tvars, lines, line_i, formatted_lines, formatted_from,
                   value_sources, line_words, clusters, cvars, xvars>>

\* app.py lines 645-653: a line of the page is clustered
ClusterLine ==
    /\ pc = "lines"
    /\ line_i = 1
    /\ \E k \in 1..Len(lines) :
        /\ line_words' = lines[k]
        /\ clusters' = cluster_words_by_proximity(lines[k])
    /\ pc' = "clustered"
    /\ UNCHANGED <<word_coordinates, tvars, lines, line_i, formatted_lines, result,
                   formatted_from, value_sources, cvars, xvars>>

\* cluster_words_by_proximity called with a line of no words
ClusterNoWords ==
    /\ pc = "page"
    /\ word_coordinates = <<>>
    /\ line_words' = <<>>
    /\ clusters' = cluster_words_by_proximity(<<>>)
    /\ pc' = "clustered"
    /\ UNCHANGED <<word_coordinates, tvars, lines, line_i, formatted_lines, result,
                   formatted_from, value_sources, cvars, xvars>>

NextPre ==
    \/ PreExtractWords
    \/ PreprocessEmpty
    \/ GroupLines
    \/ FieldLineWithValueLine
    \/ FieldLineAlone
    \/ RegularLine
    \/ PreprocessReturn
    \/ ClusterLine
    \/ ClusterNoWords

SpecPre == InitPre /\ [][NextPre]_vars

(***************************************************************************)
(* Direct calls: a caller builds a word list, constructs a                 *)
(* CoordinateTableExtractor on it and a SpatialPreprocessor, and calls     *)
(* their methods one after another on the same instances.                  *)
(***************************************************************************)
\* a call's outcome: a returned value, or the ValueError that max() raises
\* for an empty sequence (coordinate_table_extractor.py line 150)
Returned(v) == [raised |-> FALSE, value |-> v]
ValueError == [raised |-> TRUE, value |-> <<>>]

\* _find_header_words, lines 135-150: a header of no words is not a
\* single-word header, every window of zero words has the joined text '' that
\* equals the stripped header, and max() of its empty y_positions raises
find_header_words_raises(header_text, words) ==
    /\ Len(split(header_text)) = 0
    /\ \E i \in 1..(Len(words) + 1) : strip(join(<<" ">>, <<>>)) = strip(header_text)

\* _establish_column_boundaries, lines 80-81: every header is looked up
establish_raises(headers, words) ==
    \E i \in 1..Len(headers) : find_header_words_raises(headers[i], words)

\* _establish_column_boundaries with its exception
establish_column_boundaries_outcome(headers, words, tol) ==
    IF establish_raises(headers, words) THEN ValueError
    ELSE Returned(_establish_column_boundaries(headers, words, tol))

\* extract_table_data, lines 58-59
keep_row(row_data, rest) == IF row_kept(row_data) THEN <<row_data>> \o rest ELSE rest

\* extract_table_data, lines 50-59: the loop over the rows
RECURSIVE extract_rows(_, _, _, _)
extract_rows(all_rows, hry, boundaries, tol) ==
    IF all_rows = <<>> THEN <<>>
    ELSE IF is_header_row(all_rows[1], hry, tol) \/ all_rows[1].words = <<>>
    THEN extract_rows(Tail(all_rows), hry, boundaries, tol)
    ELSE keep_row(_extract_row_data(all_rows[1].words, boundaries),
                  extract_rows(Tail(all_rows), hry, boundaries, tol))

\* extract_table_data, lines 40-61, with the boundaries of line 38
table_data_of(boundaries, headers, words, tol) ==
    IF boundaries = <<>> THEN <<>>
    ELSE extract_rows(_group_words_into_rows(words, tol),
                      _find_header_row_y(headers, words, tol), boundaries, tol)

\* extract_table_data without a table_region
extract_table_data(headers, words, tol) ==
    IF headers = <<>> \/ words = <<>> THEN Returned(<<>>)
    ELSE IF establish_raises(headers, words) THEN ValueError
    ELSE Returned(table_data_of(_establish_column_boundaries(headers, words, tol),
                                headers, words, tol))

\* process_multiline_fields, lines 80-83
regular_line_output(formatted_line) ==
    IF strip(formatted_line) # <<>> THEN <<formatted_line>> ELSE <<>>

\* process_multiline_fields, lines 62-85: the formatted lines from cursor i on
RECURSIVE multiline_fields_from(_, _)
multiline_fields_from(all_lines, i) ==
    IF i > Len(all_lines) THEN <<>>
    ELSE IF line_contains_field_patterns(all_lines[i])
    THEN IF /\ next_line_of(all_lines, i) # None
            /\ is_value_line_for_fields(all_lines[i], next_line_of(all_lines, i))
         THEN <<process_field_line_with_values(all_lines[i], next_line_of(all_lines, i))>>
                  \o multiline_fields_from(all_lines, i + 2)
         ELSE <<process_field_line_with_values(all_lines[i], next_line_of(all_lines, i))>>
                  \o multiline_fields_from(all_lines, i + 1)
    ELSE regular_line_output(process_line_for_fields(all_lines[i]))
             \o multiline_fields_from(all_lines, i + 1)

process_multiline_fields(all_lines) == multiline_fields_from(all_lines, 1)

preprocess_document(words) ==
    IF words = <<>> THEN <<>>
    ELSE join(<<"\n">>, process_multiline_fields(group_words_into_lines(words, y_tolerance)))

MaxCalls == 2
MaxCallWords == 4

\* the word lists of the direct calls: a table page with the headers centered
\* at 100 and 300, data words centered at 190, 200 and 210 and a blank word,
\* a one-line form page, or a page of words whose tops are 4 units apart
Blank == <<" ">>
CallTableWords ==
    {word_data(Code, 80, 1, 120, 9), word_data(Amount, 280, 1, 320, 9),
     word_data(STD, 170, 16, 210, 24), word_data(STD, 180, 16, 220, 24),
     word_data(STD, 190, 16, 230, 24), word_data(Blank, 80, 16, 120, 24)}
CallFormWords ==
    {word_data(Name_, 0, 0, 40, 8), word_data(John, 100, 0, 140, 8),
     word_data(Doe, 140, 0, 180, 8), word_data(Doe, 100, 0, 140, 8),
     word_data(Name_, 100, 0, 140, 8)}
CallSlantedWords ==
    {word_data(John, 40, 0, 80, 8), word_data(Name_, 0, 4, 40, 12),
     word_data(Doe, 80, 8, 120, 16), word_data(Doe, 0, 12, 40, 20)}

\* the header lists passed to the table calls; the last holds the header ''
CallHeaderLists == {<<Code, Amount>>, <<Amount>>, <<Code, <<>>>>, <<<<>>>>}

InitCalls ==
    /\ pc = "page"
    /\ word_coordinates = <<>>
    /\ TableIdle
    /\ PreIdle
    /\ CallsIdle
    /\ OthersIdle

\* the unchanged locals of the two step-wise runs and of the other services
idle == <<table_headers, column_boundaries, rows, header_row_y, row_index, table_data,
          column_word_groups, extracted_row, source_rows, pvars, xvars>>

\* one more word of a table page, a form page or a slanted page, in (y0, x0)
\* order
CallsExtractWords ==
    /\ pc = "page"
    /\ Len(word_coordinates) < MaxCallWords
    /\ \E pool \in {CallTableWords, CallFormWords, CallSlantedWords} :
          \E w \in pool :
              /\ \A i \in 1..Len(word_coordinates) : word_coordinates[i] \in pool
              /\ IF word_coordinates = <<>> THEN TRUE
                 ELSE ~KeyLess(reading_key(w),
                               reading_key(word_coordinates[Len(word_coordinates)]))
              /\ word_coordinates' = Append(word_coordinates, w)
    /\ UNCHANGED <<pc, tvars, pvars, cvars, xvars>>

\* CoordinateTableExtractor(word_coordinates, tolerance) and SpatialPreprocessor()
Construct ==
    /\ pc = "page"
    /\ pc' = "ready"
    /\ given' = Some([word_coordinates |-> word_coordinates, tolerance |-> tolerance])
    /\ UNCHANGED <<word_coordinates, tvars, pvars, call, calls, seen_clusters, xvars>>

\* mutant of words_left_by_extractor: the instance's word list is sorted in
\* place by center_x
words_sorted_in_place(words) ==
    sorted(words, [i \in 1..Len(words) |-> <<words[i].center_x>>])

\* the caller's list after a CoordinateTableExtractor call: the methods read
\* self.word_coordinates and build new lists from it (sorted() at lines 164,
\* 184 and 230, comprehensions at lines 66 and 138), no statement changes it
words_left_by_extractor(words) == words

\* the caller's list after a SpatialPreprocessor call: sorted() at line 199
\* copies the list, and the in-place sorts of lines 211 and 220 are on the
\* new list current_line
words_left_by_preprocessor(words) == words

\* mutant of tolerance_left_by_extractor: a call widens self.tolerance
tolerance_widened(tol) == tol + 15

\* self.tolerance after a CoordinateTableExtractor call: it is assigned at
\* line 18 of __init__ only
tolerance_left_by_extractor(tol) == tol

\* a direct call named op with argument arg returns or raises outcome
Called(op, arg, outcome) ==
    /\ pc = "ready"
    /\ calls < MaxCalls
    /\ calls' = calls + 1
    /\ call' = Some([op |-> op, arg |-> arg, outcome |-> outcome])
    /\ UNCHANGED <<pc, given, idle>>

CallExtractTableData ==
    /\ \E headers \in CallHeaderLists :
          Called("extract_table_data", headers,
                 extract_table_data(headers, word_coordinates, tolerance))
    /\ word_coordinates' = words_left_by_extractor(word_coordinates)
    /\ tolerance' = tolerance_left_by_extractor(tolerance)
    /\ UNCHANGED seen_clusters

CallEstablishColumnBoundaries ==
    /\ \E headers \in CallHeaderLists :
          Called("_establish_column_boundaries", headers,
                 establish_column_boundaries_outcome(headers, word_coordinates, tolerance))
    /\ word_coordinates' = words_left_by_extractor(word_coordinates)
    /\ tolerance' = tolerance_left_by_extractor(tolerance)
    /\ UNCHANGED seen_clusters

CallGroupWordsIntoRows ==
    /\ Called("_group_words_into_rows", word_coordinates,
              Returned(_group_words_into_rows(word_coordinates, tolerance)))
    /\ word_coordinates' = words_left_by_extractor(word_coordinates)
    /\ tolerance' = tolerance_left_by_extractor(tolerance)
    /\ UNCHANGED seen_clusters

CallGroupWordsIntoLines ==
    /\ Called("group_words_into_lines", word_coordinates,
              Returned(group_words_into_lines(word_coordinates, y_tolerance)))
    /\ word_coordinates' = words_left_by_preprocessor(word_coordinates)
    /\ UNCHANGED <<tolerance, seen_clusters>>

CallPreprocessDocument ==
    /\ Called("preprocess_document", word_coordinates,
              Returned(preprocess_document(word_coordinates)))
    /\ word_coordinates' = words_left_by_preprocessor(word_coordinates)
    /\ UNCHANGED <<tolerance, seen_clusters>>

CallIsFieldPattern ==
    /\ Called("is_field_pattern", word_coordinates,
              Returned(is_field_pattern(word_coordinates)))
    /\ word_coordinates' = words_left_by_preprocessor(word_coordinates)
    /\ UNCHANGED <<tolerance, seen_clusters>>

\* the lines a caller clusters: the lines of its word list
lines_to_cluster(all_lines) == {all_lines[k] : k \in 1..Len(all_lines)}

CallClusterWordsByProximity ==
    /\ \E line \in lines_to_cluster(group_words_into_lines(word_coordinates, y_tolerance)) :
          \E outcome \in {Returned(cluster_words_by_proximity(line))} :
              /\ Called("cluster_words_by_proximity", line, outcome)
              /\ seen_clusters' = Append(seen_clusters, <<line, outcome.value>>)
    /\ word_coordinates' = words_left_by_preprocessor(word_coordinates)
    /\ UNCHANGED tolerance

CallProcessLineForFields ==
    /\ \E line \in lines_to_cluster(group_words_into_lines(word_coordinates, y_tolerance)) :
          Called("process_line_for_fields", line, Returned(process_line_for_fields(line)))
    /\ word_coordinates' = words_left_by_preprocessor(word_coordinates)
    /\ UNCHANGED <<tolerance, seen_clusters>>

NextCalls ==
    \/ CallsExtractWords
    \/ Construct
    \/ CallExtractTableData
    \/ CallEstablishColumnBoundaries
    \/ CallGroupWordsIntoRows
    \/ CallGroupWordsIntoLines
    \/ CallPreprocessDocument
    \/ CallIsFieldPattern
    \/ CallClusterWordsByProximity
    \/ CallProcessLineForFields

SpecCalls == InitCalls /\ [][NextCalls]_vars

(***************************************************************************)
(* The header lookups called on word lists in any order.                   *)
(***************************************************************************)
MaxHeaderPageWords == 4

\* the two-word header, and the same with two spaces between its words
CodeAmount == Code \o <<" ">> \o Amount
CodeAmountWide == Code \o <<" ", " ">> \o Amount

\* Code twice, at different places, and Amount with a center_y that is 5, 6
\* and 0 units from that of a Code
HeaderPoolWords ==
    {word_data(Code, 80, 1, 120, 9), word_data(Amount, 280, 6, 320, 14),
     word_data(Amount, 280, 7, 320, 15), word_data(Code, 100, 16, 140, 24),
     word_data(Amount, 280, 16, 320, 24)}

\* the lists of different words of the pool, in every order
HeaderPages ==
    UNION {{ws \in [1..n -> HeaderPoolWords] : \A i, j \in 1..n : i # j => ws[i] # ws[j]} :
              n \in 0..MaxHeaderPageWords}

HeaderTexts == {Code, CodeAmount, CodeAmountWide}
HeaderRowLists == {<<Code>>, <<Amount, Code>>, <<CodeAmount, Code>>}

InitHeaders ==
    /\ pc = "ready"
    /\ word_coordinates \in HeaderPages
    /\ TableIdle
    /\ PreIdle
    /\ CallsIdle
    /\ OthersIdle

CallFindHeaderWords ==
    /\ \E header_text \in HeaderTexts :
          Called("_find_header_words", header_text,
                 Returned(_find_header_words(header_text, word_coordinates, tolerance)))
    /\ word_coordinates' = words_left_by_extractor(word_coordinates)
    /\ tolerance' = tolerance_left_by_extractor(tolerance)
    /\ UNCHANGED seen_clusters

CallFindHeaderRowY ==
    /\ \E headers \in HeaderRowLists :
          Called("_find_header_row_y", headers,
                 Returned(_find_header_row_y(headers, word_coordinates, tolerance)))
    /\ word_coordinates' = words_left_by_extractor(word_coordinates)
    /\ tolerance' = tolerance_left_by_extractor(tolerance)
    /\ UNCHANGED seen_clusters

NextHeaders ==
    \/ CallFindHeaderWords
    \/ CallFindHeaderRowY
    \/ CallEstablishColumnBoundaries

SpecHeaders == InitHeaders /\ [][NextHeaders]_vars

(***************************************************************************)
(* merge_multipage_results on the results of up to MaxPages pages, whose   *)
(* page numbers differ.  extracted_data is a dict and table_data a list of *)
(* dicts with a table_name, so that no page raises.                        *)
(***************************************************************************)
MaxPages == 2

\* the field values of a page: null, '', 'A' and 'BB'
FieldValues == {None, Some(<<>>), Some(<<"A">>), Some(<<"B", "B">>)}
ExtractedData == {None} \cup {Some(<< <<"name", v>> >>) : v \in FieldValues}

ItemsRow1 == [table_name |-> "Items", headers |-> <<"Code">>, rows |-> <<"r1">>]
ItemsRows23 == [table_name |-> "Items", headers |-> <<"Code">>, rows |-> <<"r2", "r3">>]
OtherRow4 == [table_name |-> "Other", headers |-> <<"Code">>, rows |-> <<"r4">>]
TableData ==
    {None, Some(<<ItemsRow1>>), Some(<<ItemsRows23>>), Some(<<ItemsRow1, ItemsRows23>>),
     Some(<<ItemsRows23, OtherRow4>>)}

PageResults ==
    [page_number : 1..MaxPages, extracted_data : ExtractedData, table_data : TableData]

InitMerge ==
    /\ pc = "pages"
    /\ word_coordinates = <<>>
    /\ TableIdle
    /\ PreIdle
    /\ CallsIdle
    /\ OthersIdle

\* the variables no step of the merge changes
merge_idle == <<word_coordinates, tvars, pvars, cvars, svars>>

\* multipage_processor.py line 119: the result of one more page is appended
AppendPageResult ==
    /\ pc = "pages"
    /\ Len(page_results) < MaxPages
    /\ \E page_result \in PageResults :
          /\ \A i \in 1..Len(page_results) :
                page_results[i].page_number # page_result.page_number
          /\ page_results' = Append(page_results, page_result)
    /\ UNCHANGED <<pc, sorted_results, merge_i, form_fields, table_collections,
                   merged_result, merge_idle>>

\* lines 19-43
MergeStart ==
    /\ pc = "pages"
    /\ sorted_results' = sorted_by_page_number(page_results)
    /\ merged_result' =
          Some([total_pages |-> Len(page_results),
                merged_data |-> <<>>,
                page_specific_data |-> <<>>,
                table_data |-> <<>>,
                extraction_summary |-> [successful_pages |-> 0, failed_pages |-> 0,
                                        total_fields_extracted |-> 0,
                                        total_table_rows |-> 0]])
    /\ form_fields' = <<>>
    /\ table_collections' = <<>>
    /\ merge_i' = 1
    /\ pc' = "merging"
    /\ UNCHANGED <<page_results, merge_idle>>

\* lines 50-53
form_fields_after(fields, page_result) ==
    IF page_result.extracted_data = None THEN fields
    ELSE DictUpdate(fields, _process_page_form_fields(page_result.extracted_data[1],
                                                      page_result.page_number))

\* lines 56-59
table_collections_after(collections, page_result) ==
    IF page_result.table_data = None THEN collections
    ELSE _process_page_table_data(page_result.table_data[1], collections,
                                  page_result.page_number)

\* lines 62-73
merged_result_after(merged, page_result) ==
    [merged EXCEPT
        !.page_specific_data =
            Append(@, [page_number |-> page_result.page_number,
                       extraction_success |-> TRUE,
                       fields_on_page |-> len_or_zero(page_result.extracted_data),
                       tables_on_page |-> len_or_zero(page_result.table_data)]),
        !.extraction_summary.successful_pages = @ + 1,
        !.extraction_summary.total_fields_extracted =
            @ + len_or_zero(page_result.extracted_data)]

\* lines 45-73: one page result of the loop
MergePage ==
    /\ pc = "merging"
    /\ merge_i <= Len(sorted_results)
    /\ form_fields' = form_fields_after(form_fields, sorted_results[merge_i])
    /\ table_collections' = table_collections_after(table_collections, sorted_results[merge_i])
    /\ merged_result' = Some(merged_result_after(merged_result[1], sorted_results[merge_i]))
    /\ merge_i' = merge_i + 1
    /\ UNCHANGED <<pc, page_results, sorted_results, merge_idle>>

\* sum(len(table.get('rows', [])) for table in merged_result['table_data'])
total_table_rows(tables) == seq_sum([i \in 1..Len(tables) |-> Len(tables[i].rows)])

\* lines 84-91
MergeReturn ==
    /\ pc = "merging"
    /\ merge_i > Len(sorted_results)
    /\ merged_result' =
          Some([merged_result[1] EXCEPT
                   !.merged_data = form_fields,
                   !.table_data = _finalize_table_collections(table_collections),
                   !.extraction_summary.total_table_rows =
                       total_table_rows(_finalize_table_collections(table_collections))])
    /\ pc' = "merged"
    /\ UNCHANGED <<page_results, sorted_results, merge_i, form_fields, table_collections,
                   merge_idle>>

NextMerge ==
    \/ AppendPageResult
    \/ MergeStart
    \/ MergePage
    \/ MergeReturn

SpecMerge == InitMerge /\ [][NextMerge]_vars

(***************************************************************************)
(* add_document and update_document called by the requests of Threads,     *)
(* MaxRequests requests in all, on one storage file.                       *)
(***************************************************************************)
MaxRequests == 3

Threads == {1, 2}

no_request == [at |-> "idle", op |-> "none", document |-> None, documents |-> <<>>]

\* FileStorage.__init__, lines 125-132: the file holds []
InitStorage ==
    /\ pc = "serving"
    /\ word_coordinates = <<>>
    /\ TableIdle
    /\ PreIdle
    /\ CallsIdle
    /\ MergeIdle
    /\ storage_file = json_text(<<>>)
    /\ requests = [t \in Threads |-> no_request]
    /\ served = 0
    /\ completed = <<>>

\* the variables no request changes
storage_idle == <<pc, word_coordinates, tvars, pvars, cvars, mvars>>

\* add_document, lines 148-149, with a document of a new id (app.py line 78)
AddDocumentLoad(t) ==
    /\ requests[t].at = "idle"
    /\ served < MaxRequests
    /\ \E document \in {[id |-> served + 1, current_step |-> 1]} :
          requests' = [requests EXCEPT ![t] =
              [at |-> "loaded", op |-> "add", document |-> Some(document),
               documents |-> Append(_load_documents(storage_file), document)]]
    /\ served' = served + 1
    /\ UNCHANGED <<storage_file, completed, storage_idle>>

\* update_document, lines 161-165, with a document that get_document found
\* and the request moved to step 2
UpdateDocumentLoad(t) ==
    /\ requests[t].at = "idle"
    /\ served < MaxRequests
    /\ \E found \in {_load_documents(storage_file)[i] :
                        i \in 1..Len(_load_documents(storage_file))} :
          \E document \in {[found EXCEPT !.current_step = 2]} :
              requests' = [requests EXCEPT ![t] =
                  [at |-> "loaded", op |-> "update", document |-> Some(document),
                   documents |-> replace_document(_load_documents(storage_file), document)]]
    /\ served' = served + 1
    /\ UNCHANGED <<storage_file, completed, storage_idle>>

\* _save_documents, line 143: open(self.storage_file, 'w') empties the file
SaveOpen(t) ==
    /\ requests[t].at = "loaded"
    /\ storage_file' = truncated
    /\ requests' = [requests EXCEPT ![t].at = "open"]
    /\ UNCHANGED <<served, completed, storage_idle>>

\* _save_documents, lines 144-145, and the return of the call
SaveDump(t) ==
    /\ requests[t].at = "open"
    /\ storage_file' =
          written_over(storage_file,
                       [i \in 1..Len(requests[t].documents) |-> to_dict(requests[t].documents[i])])
    /\ completed' = Append(completed, [op |-> requests[t].op,
                                       document |-> requests[t].document[1]])
    /\ requests' = [requests EXCEPT ![t] = no_request]
    /\ UNCHANGED <<served, storage_idle>>

NextStorage ==
    \E t \in Threads :
        \/ AddDocumentLoad(t)
        \/ UpdateDocumentLoad(t)
        \/ SaveOpen(t)
        \/ SaveDump(t)

SpecStorage == InitStorage /\ [][NextStorage]_vars

(***************************************************************************)
(* The classifier called on clusters of up to MaxClusterWords words.       *)
(***************************************************************************)
MaxClusterWords == 2

Date_ == <<"1", "2", "/", "2", "6", "/", "2", "0", "0", "1">>
LetterA == <<"A">>
DollarName == <<"$", "n", "a", "m", "e">>
NColon == <<"N", ":">>
ID_ == <<"I", "D">>
Term == <<"t", "e", "r", "m">>
Hire == <<"h", "i", "r", "e">>
Percent == <<"5", "0", "%">>

\* values by rule 1 (Date_, LetterA, DollarName, NColon, STD, Percent), fields
\* by the rules 2 to 6 (ID_, Name_, Hire, Term) and plain words (John, Doe)
ClassifyTexts ==
    {Date_, LetterA, DollarName, NColon, ID_, Name_, John, Doe, Term, Hire, STD, Percent}

\* the cluster of the words with the given texts, 40 wide and 10 apart
cluster_of(texts) ==
    [k \in 1..Len(texts) |-> word_data(texts[k], 50 * (k - 1), 0, 50 * (k - 1) + 40, 8)]

ClassifyClusters ==
    UNION {{cluster_of(texts) : texts \in [1..n -> ClassifyTexts]} : n \in 1..MaxClusterWords}

InitClassify ==
    /\ pc = "ready"
    /\ word_coordinates \in ClassifyClusters
    /\ TableIdle
    /\ PreIdle
    /\ CallsIdle
    /\ OthersIdle

\* line 316: self.is_obvious_value_pattern(original_text)
CallIsObviousValuePattern ==
    /\ Called("is_obvious_value_pattern", cluster_text_of(word_coordinates),
              Returned(is_obvious_value_pattern(cluster_text_of(word_coordinates))))
    /\ word_coordinates' = words_left_by_preprocessor(word_coordinates)
    /\ UNCHANGED <<tolerance, seen_clusters>>

NextClassify ==
    \/ CallIsFieldPattern
    \/ CallIsObviousValuePattern

SpecClassify == InitClassify /\ [][NextClassify]_vars

(***************************************************************************)
(* Properties of SpatialPreprocessor.                                      *)
(***************************************************************************)
\* the number of times x occurs in the sequence s
Count(x, s) == Cardinality({i \in 1..Len(s) : s[i] = x})

\* the words of a sequence of word sequences, in order
RECURSIVE Flatten(_)
Flatten(ss) == IF ss = <<>> THEN <<>> ELSE ss[1] \o Flatten(Tail(ss))

\* C1: no line is both the value source of the preceding line's output and
\* processed as an output line of its own
C1_ValueLineNotProcessedAgain ==
    \A k \in value_sources : \A j \in 1..Len(formatted_from) : formatted_from[j] # k

\* the line's clusters are ["Name:"] and ["John", "Doe"]
NameJohnDoe(line) ==
    /\ Len(line) = 3
    /\ Len(cluster_words_by_proximity(line)) = 2
    /\ texts_of(cluster_words_by_proximity(line)[1]) = <<Name_>>
    /\ texts_of(cluster_words_by_proximity(line)[2]) = <<John, Doe>>

\* C7: a line whose clusters are ["Name:"] and ["John", "Doe"] is formatted
\* as "Name:\tJohn Doe", with a single colon
C7_SingleColon ==
    \A j \in 1..Len(formatted_from) :
        NameJohnDoe(lines[formatted_from[j]])
            => formatted_lines[j] = Name_ \o <<"\t">> \o John \o <<" ">> \o Doe

\* C8: the words of the lines group_words_into_lines returns are exactly the
\* input words, each exactly once
C8_LinesPartitionWords ==
    pc \in {"lines", "clustered", "returned"} =>
        /\ Len(Flatten(lines)) = Len(word_coordinates)
        /\ \A i \in 1..Len(word_coordinates) :
              Count(word_coordinates[i], Flatten(lines)) = Count(word_coordinates[i], word_coordinates)

\* three words grouped into two lines
C8_Witness ==
    /\ pc = "lines"
    /\ Len(word_coordinates) = 3
    /\ Len(lines) = 2

\* C9: the clusters cluster_words_by_proximity returns, concatenated in order,
\* are the line's word sequence
C9_ClustersConcatenateToLine ==
    pc = "clustered" => Flatten(clusters) = line_words

\* a line of three words split into two clusters
C9_Witness ==
    /\ pc = "clustered"
    /\ Len(line_words) = 3
    /\ Len(clusters) = 2

\* C10: every cluster cluster_words_by_proximity returns is non-empty, for a
\* line of no words and of one word as well
C10_ClustersNonEmpty ==
    pc = "clustered" => \A k \in 1..Len(clusters) : clusters[k] # <<>>


\* the line is formatted as a field line without a value line: it holds a
\* field pattern and the next line is absent or no value line for it
FieldLineWithoutValueLine(k) ==
    /\ line_contains_field_patterns(lines[k])
    /\ ~(k + 1 <= Len(lines) /\ is_value_line_for_fields(lines[k], lines[k + 1]))

\* C17: a field line whose next line is absent or no value line is formatted
\* by same-line pairing, process_line_for_fields, so that no text of the next
\* line is in its output
C17_SameLinePairingWithoutValueLine ==
    \A j \in 1..Len(formatted_from) :
        FieldLineWithoutValueLine(formatted_from[j])
            => formatted_lines[j] = process_line_for_fields(lines[formatted_from[j]])

\* some word of the next line is centered within 30 units of a word of line
Within30(line, next) ==
    \E f \in 1..Len(line) : \E v \in 1..Len(next) :
        abs(line[f].center_x - next[v].center_x) <= 30

\* line k holds a field pattern and line k + 1 exists and is within 30 of it
TakesNextLine(k) ==
    /\ k + 1 <= Len(lines)
    /\ line_contains_field_patterns(lines[k])
    /\ Within30(lines[k], lines[k + 1])

\* the lines visited as a current line, and as a consumed value line
CurrentLines == {formatted_from[j] : j \in 1..Len(formatted_from)}
ConsumedLines == {k + 1 : k \in {c \in CurrentLines : TakesNextLine(c)}}

\* every line before the cursor was visited exactly once
VisitedOnce ==
    pc \in {"lines", "returned"} =>
        /\ line_i <= Len(lines) + 1
        /\ \A j \in 1..(Len(formatted_from) - 1) : formatted_from[j] < formatted_from[j + 1]
        /\ CurrentLines \cap ConsumedLines = {}
        /\ CurrentLines \cup ConsumedLines = 1..(line_i - 1)
        /\ (pc = "returned" /\ word_coordinates # <<>>) => line_i = Len(lines) + 1

\* the cursor advances by 2 over a field line that takes the next line, by 1
\* over every other line
CursorStep ==
    (pc = "lines" /\ pc' = "lines") =>
        line_i' = line_i + (IF TakesNextLine(line_i) THEN 2 ELSE 1)

\* every step of the walk brings the cursor nearer to the end of the lines, where
\* the walk returns
WalkEnds ==
    pc = "lines" =>
        \/ pc' = "lines" /\ line_i < line_i' /\ line_i' <= Len(lines) + 1
        \/ pc' = "returned" /\ line_i = Len(lines) + 1
        \/ pc' = "clustered" /\ line_i = 1

\* C18: the cursor of process_multiline_fields advances by exactly 2 when the
\* current line holds a field pattern and the next line exists and has a word
\* centered within 30 units of a word of the current line, and by exactly 1
\* otherwise; the walk ends, and every line is visited exactly once, as a
\* current line or as a consumed value line
C18_CursorAdvance == []VisitedOnce /\ [][CursorStep /\ WalkEnds]_vars

\* C18 witness: a walk over two lines that ended after one step of 2, the second
\* line consumed as the value line of the first
C18_Witness ==
    /\ pc = "returned"
    /\ Len(lines) = 2
    /\ CurrentLines = {1}
    /\ ConsumedLines = {2}
    /\ line_i = 3

\* the mean center_x of cluster a is at most d units from that of cluster b
CentersWithin(a, b, d) ==
    abs(seq_sum([i \in 1..Len(a) |-> a[i].center_x]) * Len(b)
        - seq_sum([i \in 1..Len(b) |-> b[i].center_x]) * Len(a)) <= d * Len(a) * Len(b)

\* cluster a is no farther from the field cluster fc than cluster b
NoFarther(fc, a, b) ==
    abs(seq_sum([i \in 1..Len(fc) |-> fc[i].center_x]) * Len(a)
        - seq_sum([i \in 1..Len(a) |-> a[i].center_x]) * Len(fc)) * Len(b)
    <= abs(seq_sum([i \in 1..Len(fc) |-> fc[i].center_x]) * Len(b)
           - seq_sum([i \in 1..Len(b) |-> b[i].center_x]) * Len(fc)) * Len(a)

\* the value-line clusters within 50 units of fc that are not fields, and the
\* nearest of them
Eligible(fc, vcs) ==
    {v \in 1..Len(vcs) : CentersWithin(fc, vcs[v], 50) /\ ~is_field_pattern(vcs[v])}
Nearest(fc, vcs) ==
    {v \in Eligible(fc, vcs) : \A u \in Eligible(fc, vcs) : NoFarther(fc, vcs[v], vcs[u])}

\* the texts a cluster of the field line may be emitted as
PartChoices(fc, vcs) ==
    IF ~is_field_pattern(fc) THEN {cluster_text_of(fc)}
    ELSE IF Eligible(fc, vcs) = {} THEN {cluster_text_of(fc) \o <<":", "\t">> \o EMPTY}
    ELSE {cluster_text_of(fc) \o <<":", "\t">> \o cluster_text_of(vcs[v]) :
             v \in Nearest(fc, vcs)}

\* the texts a field line with the clusters fcs may be formatted as
PairedOutputs(fcs, vcs) ==
    {join(<<" ", " ", " ", " ">>, parts) :
        parts \in {q \in [1..Len(fcs) -> UNION {PartChoices(fcs[c], vcs) : c \in 1..Len(fcs)}] :
                      \A c \in 1..Len(fcs) : q[c] \in PartChoices(fcs[c], vcs)}}

\* the line that the last formatted line was made from is a field line
LastFromFieldLine ==
    /\ pc \in {"lines", "returned"}
    /\ formatted_from # <<>>
    /\ line_contains_field_patterns(lines[formatted_from[Len(formatted_from)]])

\* its clusters and the clusters of the line under it
LastFieldClusters == cluster_words_by_proximity(lines[formatted_from[Len(formatted_from)]])
LastValueClusters ==
    value_clusters_of(next_line_of(lines, formatted_from[Len(formatted_from)]))

\* C24: process_field_line_with_values pairs each field cluster of the field
\* line with the nearest value-line cluster, by mean center_x, among those
\* within 50 units that are not fields, emits [EMPTY] when there is none,
\* emits the other clusters as their joined text, and joins the parts by four
\* spaces
C24_NearestValueWithin50 ==
    LastFromFieldLine =>
        formatted_lines[Len(formatted_lines)] \in PairedOutputs(LastFieldClusters, LastValueClusters)

\* C24 witness: a field cluster had two value clusters to choose from and was
\* paired with the second one, the nearer
C24_Witness ==
    /\ LastFromFieldLine
    /\ \E c \in 1..Len(LastFieldClusters) :
          /\ is_field_pattern(LastFieldClusters[c])
          /\ Cardinality(Eligible(LastFieldClusters[c], LastValueClusters)) = 2
          /\ Nearest(LastFieldClusters[c], LastValueClusters) = {2}

(***************************************************************************)
(* Properties of the direct calls.                                         *)
(***************************************************************************)
\* the last call is a call of op
LastCall(op) == call # None /\ call[1].op = op

\* a word of the caller's list carries the header's text
HeaderOnPage(h) ==
    /\ strip(h) # <<>>
    /\ \E i \in 1..Len(word_coordinates) : strip(word_coordinates[i].text) = strip(h)

\* the headers of a list of boundaries
BoundaryHeaders(boundaries) == {boundaries[i].header : i \in 1..Len(boundaries)}

\* C11: a boundary is returned exactly for the headers whose text is on the
\* page, a header that is not found is never a key of a row record, and when
\* no header is found the boundary list is empty and extract_table_data
\* returns an empty list; neither call raises an error
C11_BoundariesOnlyForLocatedHeaders ==
    /\ LastCall("_establish_column_boundaries") =>
          /\ ~call[1].outcome.raised
          /\ BoundaryHeaders(call[1].outcome.value)
               = {call[1].arg[i] : i \in {j \in 1..Len(call[1].arg) : HeaderOnPage(call[1].arg[j])}}
    /\ LastCall("extract_table_data") =>
          /\ ~call[1].outcome.raised
          /\ \A k \in 1..Len(call[1].outcome.value) :
                \A c \in 1..Len(call[1].outcome.value[k]) :
                    HeaderOnPage(call[1].outcome.value[k][c][1])
          /\ (\A i \in 1..Len(call[1].arg) : ~HeaderOnPage(call[1].arg[i]))
                => call[1].outcome.value = <<>>

\* C12: every cell of every row record extract_table_data returns is null or
\* a non-empty string, never the empty string
C12_CellsNullOrNonEmpty ==
    (LastCall("extract_table_data") /\ ~call[1].outcome.raised) =>
        \A k \in 1..Len(call[1].outcome.value) :
            \A c \in 1..Len(call[1].outcome.value[k]) :
                \/ call[1].outcome.value[k][c][2] = None
                \/ /\ Len(call[1].outcome.value[k][c][2]) = 1
                   /\ strip(call[1].outcome.value[k][c][2][1]) # <<>>

\* C12 witness: a returned record whose Code cell is null although the row
\* holds a blank word under Code, next to a filled Amount cell
C12_Witness ==
    /\ LastCall("extract_table_data")
    /\ call[1].arg = <<Code, Amount>>
    /\ call[1].outcome = Returned(<<<< <<Code, None>>, <<Amount, Some(STD)>> >>>>)
    /\ \E i \in 1..Len(word_coordinates) :
          /\ word_coordinates[i].text = Blank
          /\ word_coordinates[i].center_x < 200

\* the data words of a table page (its second row), left of x and from x on
DataWordsLeftOf(x) == SelectSeq(word_coordinates, LAMBDA w : w.y0 = 16 /\ w.center_x < x)
DataWordsFrom(x) == SelectSeq(word_coordinates, LAMBDA w : w.y0 = 16 /\ w.center_x >= x)

\* the cell made of the words ws, which are in x order
CellOf(ws) ==
    IF strip(join(<<" ">>, texts_of(ws))) = <<>> THEN None
    ELSE Some(strip(join(<<" ">>, texts_of(ws))))

\* the record of the data row for columns [0, 200) and [200, inf)
RecordsSplitAt200 ==
    IF CellOf(DataWordsLeftOf(200)) = None /\ CellOf(DataWordsFrom(200)) = None THEN <<>>
    ELSE << << <<Code, CellOf(DataWordsLeftOf(200))>>,
               <<Amount, CellOf(DataWordsFrom(200))>> >> >>

\* C13: with the headers Code and Amount centered at 100 and 300 the
\* boundaries are [0, 200) and [200, inf); a word centered left of 200 goes to
\* Code and a word centered at 200 or right of it goes to Amount
C13_HalfOpenIntervals ==
    (HeaderOnPage(Code) /\ HeaderOnPage(Amount)) =>
        /\ (LastCall("_establish_column_boundaries") /\ call[1].arg = <<Code, Amount>>) =>
              call[1].outcome =
                  Returned(<<[header |-> Code, left_x |-> 0, right_x |-> 200,
                              header_center |-> 100],
                             [header |-> Amount, left_x |-> 200, right_x |-> Inf,
                              header_center |-> 300]>>)
        /\ (LastCall("extract_table_data") /\ call[1].arg = <<Code, Amount>>) =>
              call[1].outcome = Returned(RecordsSplitAt200)

\* C13 witness: words centered at 190 and at 200 end up in Code and Amount
C13_Witness ==
    /\ LastCall("extract_table_data")
    /\ call[1].arg = <<Code, Amount>>
    /\ HeaderOnPage(Code) /\ HeaderOnPage(Amount)
    /\ \E i, j \in 1..Len(word_coordinates) :
          word_coordinates[i].center_x = 190 /\ word_coordinates[j].center_x = 200
    /\ call[1].outcome = Returned(<<<< <<Code, Some(STD)>>, <<Amount, Some(STD)>> >>>>)

\* C14: on an empty word list group_words_into_lines, preprocess_document,
\* _group_words_into_rows, _establish_column_boundaries and
\* extract_table_data return an empty result and raise no error
C14_EmptyWordListEmptyResult ==
    (/\ call # None
     /\ word_coordinates = <<>>
     /\ call[1].op \in {"group_words_into_lines", "preprocess_document",
                        "_group_words_into_rows", "_establish_column_boundaries",
                        "extract_table_data"}) =>
        call[1].outcome = Returned(<<>>)

\* the outcome a call of op with argument arg has on a fresh instance made
\* with the constructor arguments ctor
FreshOutcome(op, arg, ctor) ==
    CASE op = "extract_table_data" ->
            extract_table_data(arg, ctor.word_coordinates, ctor.tolerance)
      [] op = "_establish_column_boundaries" ->
            establish_column_boundaries_outcome(arg, ctor.word_coordinates, ctor.tolerance)
      [] op = "_group_words_into_rows" ->
            Returned(_group_words_into_rows(ctor.word_coordinates, ctor.tolerance))
      [] op = "group_words_into_lines" -> Returned(group_words_into_lines(arg, y_tolerance))
      [] op = "preprocess_document" -> Returned(preprocess_document(arg))
      [] op = "is_field_pattern" -> Returned(is_field_pattern(arg))
      [] op = "cluster_words_by_proximity" -> Returned(cluster_words_by_proximity(arg))
      [] op = "process_line_for_fields" -> Returned(process_line_for_fields(arg))

GapAfter(line, k) == line[k + 1].x0 - line[k].x1

\* the texts of the clusters of a clustering
ClusterTexts(cs) == [c \in 1..Len(cs) |-> texts_of(cs[c])]

\* C19: the line Name:, John, Doe with a large gap after Name: and a small gap
\* between John and Doe, both non-negative, is clustered into [Name:] and
\* [John, Doe]
C19_NameSplitFromJohnDoe ==
    \A j \in 1..Len(seen_clusters) :
        (/\ texts_of(seen_clusters[j][1]) = <<Name_, John, Doe>>
         /\ GapAfter(seen_clusters[j][1], 2) >= 0
         /\ GapAfter(seen_clusters[j][1], 1) > GapAfter(seen_clusters[j][1], 2))
            => ClusterTexts(seen_clusters[j][2]) = <<<<Name_>>, <<John, Doe>>>>

\* C20: a line of two or more words whose gaps are all zero or negative is
\* clustered into single words
C20_OverlappingWordsAllSplit ==
    \A j \in 1..Len(seen_clusters) :
        (/\ Len(seen_clusters[j][1]) >= 2
         /\ \A k \in 1..(Len(seen_clusters[j][1]) - 1) : GapAfter(seen_clusters[j][1], k) <= 0)
            => \A c \in 1..Len(seen_clusters[j][2]) : Len(seen_clusters[j][2][c]) = 1

\* the anchor of a line: its first word in (y0, x0) order
Anchor(line) ==
    CHOOSE a \in 1..Len(line) :
        \A k \in 1..Len(line) : ~KeyLess(reading_key(line[k]), reading_key(line[a]))

\* the words of a line are within y_tol of the line's anchor and in x0 order
LineAroundAnchor(line, y_tol) ==
    /\ line # <<>>
    /\ \A k \in 1..Len(line) : abs(line[k].y0 - line[Anchor(line)].y0) <= y_tol
    /\ \A k \in 1..(Len(line) - 1) : line[k].x0 <= line[k + 1].x0

\* a line starts with the first word, in (y0, x0) order, whose y0 is more than
\* y_tol above the anchor of the line before
LineStartsBeyond(before, line, y_tol) ==
    /\ line[Anchor(line)].y0 - before[Anchor(before)].y0 > y_tol
    /\ \A k \in 1..Len(before) :
          ~KeyLess(reading_key(line[Anchor(line)]), reading_key(before[k]))

\* C21: in every line of group_words_into_lines each word's y0 is within
\* y_tolerance of the y0 of the line's anchor, its first word in (y0, x0)
\* order; a new line starts exactly with the word whose y0 exceeds the anchor
\* by more than y_tolerance; the words of a line are in ascending x0 order
C21_LinesAroundAnchor ==
    LastCall("group_words_into_lines") =>
        /\ \A k \in 1..Len(call[1].outcome.value) :
              LineAroundAnchor(call[1].outcome.value[k], y_tolerance)
        /\ \A k \in 1..(Len(call[1].outcome.value) - 1) :
              LineStartsBeyond(call[1].outcome.value[k], call[1].outcome.value[k + 1],
                               y_tolerance)

\* C21 witness: words with y0 0, 4, 8 and 12 were grouped into two lines, the
\* second one anchored at its last word in x0 order
C21_Witness ==
    /\ LastCall("group_words_into_lines")
    /\ Len(call[1].arg) = 4
    /\ \A k \in 1..3 : call[1].arg[k + 1].y0 - call[1].arg[k].y0 = 4
    /\ Len(call[1].outcome.value) = 2
    /\ Anchor(call[1].outcome.value[2]) = 2

\* cluster k of cs emitted with the cluster after it as its value
WithNextCluster(cs, k) ==
    IF ~is_field_pattern(cs[k]) THEN cluster_text_of(cs[k])
    ELSE IF k < Len(cs) /\ ~is_field_pattern(cs[k + 1])
    THEN cluster_text_of(cs[k]) \o <<":", "\t">> \o cluster_text_of(cs[k + 1])
    ELSE cluster_text_of(cs[k]) \o <<":", "\t">> \o EMPTY

\* two clusters of cs have equal content
EqualClusters(cs) == \E i, j \in 1..Len(cs) : i < j /\ cs[i] = cs[j]

\* C25: process_line_for_fields gives every field cluster the text of the
\* cluster right after it as its value, [EMPTY] when that cluster is a field
\* or there is none, at every position, also when two clusters of the line
\* have equal content
C25_ValueFromNextCluster ==
    LastCall("process_line_for_fields") =>
        call[1].outcome.value =
            join(<<" ", " ", " ", " ">>,
                 [k \in 1..Len(cluster_words_by_proximity(call[1].arg)) |->
                     WithNextCluster(cluster_words_by_proximity(call[1].arg), k)])

(***************************************************************************)
(* Properties of the classifier.                                           *)
(***************************************************************************)
\* the text of the classified cluster carries a mark of a field: a keyword,
\* or one of the endings
LooksLikeField(text) ==
    \/ has_field_keyword(lower(text))
    \/ \E e \in 1..Len(field_endings) : endswith(lower(text), field_endings[e])

\* C22: a cluster whose joined text is an obvious value is not a field, also
\* when the text holds a field keyword or ends with ':' or another field
\* ending; the clusters ["12/26/2001"] and ["A"] are not fields
C22_ObviousValueFirst ==
    LastCall("is_field_pattern") =>
        /\ is_obvious_value_pattern(cluster_text_of(call[1].arg)) => ~call[1].outcome.value
        /\ texts_of(call[1].arg) \in {<<Date_>>, <<LetterA>>} => ~call[1].outcome.value

\* C22 witness: the cluster ["$name"], a value by its first character that
\* holds the keyword name, was classified
C22_Witness ==
    /\ LastCall("is_field_pattern")
    /\ texts_of(call[1].arg) = <<DollarName>>
    /\ is_obvious_value_pattern(cluster_text_of(call[1].arg))
    /\ LooksLikeField(cluster_text_of(call[1].arg))
    /\ ~call[1].outcome.value

\* the secondary keywords: the eleven of the written rule 5, and the thirteen
\* with employee and term
SecondaryListed ==
    { <<"s","t","a","t","u","s">>, <<"e","m","p">>,
      <<"p","o","s","i","t","i","o","n">>, <<"t","i","t","l","e">>,
      <<"g","e","n","d","e","r">>, <<"m","a","r","i","t","a","l">>,
      <<"h","i","r","e">>, <<"s","u","p","e","r","v","i","s","o","r">>,
      <<"d","e","p","a","r","t","m","e","n","t">>, <<"d","i","v","i","s","i","o","n">>,
      <<"l","o","c","a","t","i","o","n">> }
SecondaryWithTerm == SecondaryListed \cup {<<"e","m","p","l","o","y","e","e">>, <<"t","e","r","m">>}

\* the rules 2 to 6 in their order, on the joined text, its lowercased form
\* and the words' texts
RuleChain(text, lowered, words, secondary) ==
    IF has_field_keyword(lowered) THEN TRUE
    ELSE IF \E e \in 1..Len(field_endings) : endswith(lowered, field_endings[e]) THEN TRUE
    ELSE IF Len(words) >= 2 /\ title_case_count(words) * 10 >= Len(words) * 7 THEN TRUE
    ELSE IF \E k \in secondary : contains(lowered, k) THEN TRUE
    ELSE IF last_word_is_field(split(text)) THEN TRUE
    ELSE FALSE

\* the decision of the rules 1 to 7 for a cluster
Decision(cluster, secondary) ==
    IF is_obvious_value_pattern(cluster_text_of(cluster)) THEN FALSE
    ELSE RuleChain(cluster_text_of(cluster), lower(cluster_text_of(cluster)),
                   texts_of(cluster), secondary)

\* C23: is_field_pattern is the ordered rule chain with the secondary keyword
\* set status, emp, position, title, gender, marital, hire, supervisor,
\* department, division, location; a cluster matching no rule is not a field
C23_RuleChainAsListed ==
    LastCall("is_field_pattern") =>
        call[1].outcome.value = Decision(call[1].arg, SecondaryListed)

\* C23 amended: is_field_pattern is the ordered rule chain with the secondary
\* keyword set status, emp, employee, position, title, gender, marital, hire,
\* term, supervisor, department, division, location
C23_RuleChainWithTerm ==
    LastCall("is_field_pattern") =>
        call[1].outcome.value = Decision(call[1].arg, SecondaryWithTerm)

\* C23 witness: the cluster ["term"], which only rule 5 can decide, was
\* classified a field
C23_Witness ==
    /\ LastCall("is_field_pattern")
    /\ texts_of(call[1].arg) = <<Term>>
    /\ ~Decision(call[1].arg, {})
    /\ call[1].outcome.value

(***************************************************************************)
(* Properties of the header lookups.                                       *)
(***************************************************************************)
\* the k words of the list from position i on
Window(i, k) == SubSeq(word_coordinates, i, i + k - 1)

\* the texts of the window joined by single spaces are the header
WindowHasText(i, k, header_text) ==
    strip(join(<<" ">>, texts_of(Window(i, k)))) = strip(header_text)

\* the center_y of the window's words are at most tol apart
WindowOnOneLine(i, k, tol) ==
    \A a, b \in i..(i + k - 1) :
        word_coordinates[a].center_y - word_coordinates[b].center_y <= tol

\* the windows of k words that qualify for the header
Qualifying(k, header_text, tol) ==
    {i \in 1..(Len(word_coordinates) - k + 1) :
        WindowHasText(i, k, header_text) /\ WindowOnOneLine(i, k, tol)}

\* C26: for a header of k >= 2 words _find_header_words returns the first
\* window of k consecutive words of the list whose texts joined by single
\* spaces are the header and whose center_y span at most the tolerance; a
\* window of words on different lines is rejected; with no such window the
\* result is empty
C26_FirstWindowOnOneLine ==
    (LastCall("_find_header_words") /\ Len(split(call[1].arg)) >= 2) =>
        \E k \in {Len(split(call[1].arg))} :
            IF Qualifying(k, call[1].arg, tolerance) = {}
            THEN call[1].outcome.value = <<>>
            ELSE \E i \in Qualifying(k, call[1].arg, tolerance) :
                    /\ \A j \in Qualifying(k, call[1].arg, tolerance) : i <= j
                    /\ call[1].outcome.value = Window(i, k)

\* C26 witness: the first window with the header's text was on two lines and
\* a later window was returned
C26_Witness ==
    /\ LastCall("_find_header_words")
    /\ call[1].arg = CodeAmount
    /\ Len(word_coordinates) = 4
    /\ WindowHasText(1, 2, CodeAmount)
    /\ ~WindowOnOneLine(1, 2, tolerance)
    /\ call[1].outcome.value = Window(3, 2)

\* the positions of the list whose trimmed text is the header
Occurrences(header_text) ==
    {i \in 1..Len(word_coordinates) : strip(word_coordinates[i].text) = strip(header_text)}

\* the sum of f over the set of positions ps
RECURSIVE SumOver(_, _)
SumOver(ps, f) ==
    IF ps = {} THEN 0
    ELSE f[CHOOSE p \in ps : TRUE] + SumOver(ps \ {CHOOSE p \in ps : TRUE}, f)

\* the headers of a list of single-word headers that are on the page, in list
\* order
SingleWords(headers) == \A h \in 1..Len(headers) : Len(split(headers[h])) = 1
Locatable(headers) == SelectSeq(headers, LAMBDA h : Occurrences(h) # {})

\* the words returned are the occurrences of the header, all of them
AllOccurrences(header_text, found) ==
    /\ Len(found) = Cardinality(Occurrences(header_text))
    /\ \A i \in Occurrences(header_text) : \E j \in 1..Len(found) : found[j] = word_coordinates[i]

\* the center of a boundary is halfway between the least x0 and the greatest
\* x1 of the occurrences of its header
CenterOverOccurrences(boundary) ==
    \E lo \in Occurrences(boundary.header), hi \in Occurrences(boundary.header) :
        /\ \A i \in Occurrences(boundary.header) :
              /\ word_coordinates[lo].x0 <= word_coordinates[i].x0
              /\ word_coordinates[i].x1 <= word_coordinates[hi].x1
        /\ 2 * boundary.header_center = word_coordinates[lo].x0 + word_coordinates[hi].x1

\* the header-row y is the mean center_y of the occurrences of the header
MeanOverOccurrences(header_text, hry) ==
    /\ hry # None
    /\ hry[1].len = Cardinality(Occurrences(header_text))
    /\ hry[1].sum = SumOver(Occurrences(header_text),
                            [i \in 1..Len(word_coordinates) |-> word_coordinates[i].center_y])

PagesWithValue(field_name) ==
    {i \in 1..Len(page_results) :
        /\ page_results[i].extracted_data # None
        /\ DictHas(page_results[i].extracted_data[1], field_name)
        /\ has_value(DictGet(page_results[i].extracted_data[1], field_name))}

\* the one of them with the lowest page number
FirstPageWithValue(field_name) ==
    CHOOSE i \in PagesWithValue(field_name) :
        \A j \in PagesWithValue(field_name) :
            page_results[i].page_number <= page_results[j].page_number

\* C27: a form field that has a value on several pages keeps the value of the
\* lowest-numbered page on which it is not null; later pages do not replace it
C27_FirstPageValueKept ==
    (pc = "merged" /\ PagesWithValue("name") # {}) =>
        /\ DictHas(merged_result[1].merged_data, "name")
        /\ DictGet(merged_result[1].merged_data, "name").value =
              DictGet(page_results[FirstPageWithValue("name")].extracted_data[1], "name")

\* the rows of the tables named table_name in a list of tables
RECURSIVE RowsNamed(_, _)
RowsNamed(tables, table_name) ==
    IF tables = <<>> THEN <<>>
    ELSE (IF tables[1].table_name = table_name THEN tables[1].rows ELSE <<>>)
         \o RowsNamed(Tail(tables), table_name)

\* the rows of the tables named table_name on the pages numbered from n on, in
\* ascending page-number order
RECURSIVE RowsFromPage(_, _)
RowsFromPage(n, table_name) ==
    IF n > MaxPages THEN <<>>
    ELSE (IF \E i \in 1..Len(page_results) :
                page_results[i].page_number = n /\ page_results[i].table_data # None
          THEN RowsNamed(page_results[CHOOSE i \in 1..Len(page_results) :
                                         page_results[i].page_number = n].table_data[1],
                         table_name)
          ELSE <<>>)
         \o RowsFromPage(n + 1, table_name)

\* the sum of the counts of a rows_by_page dict
CountsSum(rows_by_page) == seq_sum([i \in 1..Len(rows_by_page) |-> rows_by_page[i][2]])

\* C28: the rows of the tables of one name are concatenated in ascending
\* page-number order whatever the order of page_results, every merged table's
\* total_rows is the sum of its rows_by_page counts, and total_table_rows is
\* the sum of total_rows over the merged tables
C28_RowsInPageOrderAndCounted ==
    pc = "merged" =>
        /\ \A t \in 1..Len(merged_result[1].table_data) :
              /\ merged_result[1].table_data[t].rows =
                    RowsFromPage(1, merged_result[1].table_data[t].table_name)
              /\ merged_result[1].table_data[t].metadata.total_rows =
                    CountsSum(merged_result[1].table_data[t].metadata.rows_by_page)
        /\ merged_result[1].extraction_summary.total_table_rows =
              seq_sum([t \in 1..Len(merged_result[1].table_data) |->
                          merged_result[1].table_data[t].metadata.total_rows])

(***************************************************************************)
(* Properties of FileStorage.                                              *)
(***************************************************************************)
\* no request is running
Quiet == \A t \in Threads : requests[t].at = "idle"

\* the file holds a document with the id, and one with the id at the step
Stored(id) ==
    \E i \in 1..Len(_load_documents(storage_file)) : _load_documents(storage_file)[i].id = id
StoredAt(id, step) ==
    \E i \in 1..Len(_load_documents(storage_file)) :
        /\ _load_documents(storage_file)[i].id = id
        /\ _load_documents(storage_file)[i].current_step = step

\* C30: no update is lost under concurrent use: when the requests that ran
\* add_document and update_document with interleaved loads and saves have
\* all returned, the file holds every document added, before or by them, and
\* every change made
C30_NoUpdateLost ==
    Quiet =>
        \A c \in 1..Len(completed) :
            /\ Stored(completed[c].document.id)
            /\ completed[c].op = "update" => StoredAt(completed[c].document.id, 2)

(***************************************************************************)
(* Properties of extract_table_data.                                       *)
(***************************************************************************)
\* the first position of x in s
IndexOf(x, s) == CHOOSE i \in 1..Len(s) : s[i] = x /\ \A j \in 1..(i - 1) : s[j] # x

\* the page words carrying the header's text, and the header's x center on the page
PageHeaderWords(h) == SelectSeq(word_coordinates, LAMBDA w : w.text = h)
PageHeaderCenter(h) ==
    (seq_min([i \in 1..Len(PageHeaderWords(h)) |-> PageHeaderWords(h)[i].x0])
     + seq_max([i \in 1..Len(PageHeaderWords(h)) |-> PageHeaderWords(h)[i].x1])) \div 2

\* the row's y_center is at most tolerance away from the header row's y
WithinToleranceOfHeader(row) ==
    /\ header_row_y # None
    /\ abs(row.y_center * header_row_y[1].len - header_row_y[1].sum)
         <= tolerance * header_row_y[1].len

\* C2: extract_table_data never returns the header row: no returned record is
\* built from a row whose y_center is within tolerance (distance <= tolerance,
\* a header row at y = 0 included) of the header row's y.
C2_HeaderRowNeverReturned ==
    \A k \in 1..Len(source_rows) : ~WithinToleranceOfHeader(rows[source_rows[k]])

\* C3 as claimed: in every returned record the keys are in the order of the
\* caller's header list, whatever the headers' positions on the page.
C3_KeysInHeaderListOrder ==
    \A k \in 1..Len(table_data) :
        \A i, j \in 1..Len(table_data[k]) :
            i < j => IndexOf(table_data[k][i][1], table_headers)
                       < IndexOf(table_data[k][j][1], table_headers)

\* C3 amended: in every returned record the keys are the located headers in
\* ascending order of their x center on the page (left to right); headers
\* with equal centers are in header-list order.
C3_KeysInPageOrder ==
    \A k \in 1..Len(table_data) :
        \A i, j \in 1..Len(table_data[k]) :
            i < j =>
                \/ PageHeaderCenter(table_data[k][i][1]) < PageHeaderCenter(table_data[k][j][1])
                \/ /\ PageHeaderCenter(table_data[k][i][1]) = PageHeaderCenter(table_data[k][j][1])
                   /\ IndexOf(table_data[k][i][1], table_headers)
                        < IndexOf(table_data[k][j][1], table_headers)

\* C3 witness: a record was returned whose first key is not the first header
\* of the caller's list.
C3_Witness ==
    /\ pc = "returned"
    /\ Len(table_data) >= 1
    /\ Len(table_data[1]) = 2
    /\ table_data[1][1][1] # table_headers[1]

\* every requested header is distinct and is located on the page
AllHeadersLocated ==
    /\ \A i, j \in 1..Len(table_headers) : i # j => table_headers[i] # table_headers[j]
    /\ \A i \in 1..Len(table_headers) : PageHeaderWords(table_headers[i]) # <<>>

\* word w lies in the interval of boundary b
Covers(b, w) == b.left_x <= w.center_x /\ w.center_x < b.right_x

\* w belongs to the column of boundary b: b's interval holds its center, or
\* no interval does and no header center is nearer than b's
BelongsTo(b, w) ==
    \/ Covers(b, w)
    \/ /\ \A i \in 1..Len(column_boundaries) : ~Covers(column_boundaries[i], w)
       /\ \A i \in 1..Len(column_boundaries) :
             abs(b.header_center - w.center_x)
               <= abs(column_boundaries[i].header_center - w.center_x)

\* the index of the boundary of header h
BoundaryOf(h) ==
    CHOOSE i \in 1..Len(column_boundaries) : column_boundaries[i].header = h

\* w is a word of column i: w belongs to boundary i and, when it is outside
\* every interval, to no earlier boundary (min() keeps the first of equally
\* near centers)
WordOfColumn(i, w) ==
    /\ BelongsTo(column_boundaries[i], w)
    /\ \A j \in 1..(i - 1) : ~BelongsTo(column_boundaries[j], w)

\* the words of the cell: the tokens of its text, none for null
CellTokens(cell) == IF cell = None THEN <<>> ELSE split(cell[1])

\* C4: when every requested (distinct) header is located, each returned
\* record has exactly one key per requested header, a column with no word
\* in the row is null, and the texts in a cell are those of the row's words
\* that belong to that column's boundary (no value shifts to a neighbour).
C4_OneCellPerHeader ==
    AllHeadersLocated =>
        \A k \in 1..Len(table_data) :
            /\ Len(table_data[k]) = Len(table_headers)
            /\ \A i \in 1..Len(table_headers) : DictHas(table_data[k], table_headers[i])
            /\ \A c \in 1..Len(table_data[k]) :
                LET b == BoundaryOf(table_data[k][c][1])
                    row_words == rows[source_rows[k]].words
                    tokens == CellTokens(table_data[k][c][2])
                    mine == SelectSeq(row_words, LAMBDA w : WordOfColumn(b, w))
                IN  /\ (mine = <<>>) <=> (table_data[k][c][2] = None)
                    /\ Len(tokens) = Len(mine)
                    /\ \A t \in 1..Len(tokens) :
                          \E m \in 1..Len(mine) : mine[m].text = tokens[t]

\* C4 witness: two distinct located headers and a returned record with one
\* filled and one null cell.
C4_Witness ==
    /\ AllHeadersLocated
    /\ Len(table_headers) = 2
    /\ \E k \in 1..Len(table_data) :
          \E c, d \in 1..Len(table_data[k]) :
              table_data[k][c][2] = None /\ table_data[k][d][2] # None

\* C5: the boundaries, in ascending header-center order, start at 0, end at
\* +infinity and each starts where the previous one ends; every x >= 0 lies
\* in exactly one interval [left_x, right_x).
C5_BoundariesCoverAxis ==
    column_boundaries # <<>> =>
        LET n == Len(column_boundaries)
            probes == {0} \cup {column_boundaries[i].left_x : i \in 1..n}
                          \cup {column_boundaries[i].header_center : i \in 1..n}
                          \cup {w.center_x : w \in TableWords}
        IN  /\ column_boundaries[1].left_x = 0
            /\ column_boundaries[n].right_x = Inf
            /\ \A i \in 2..n :
                  /\ column_boundaries[i].left_x = column_boundaries[i - 1].right_x
                  /\ column_boundaries[i - 1].header_center <= column_boundaries[i].header_center
            /\ \A x \in probes :
                  x >= 0 =>
                    Cardinality({i \in 1..n : /\ column_boundaries[i].left_x <= x
                                              /\ x < column_boundaries[i].right_x}) = 1

\* C5 witness: boundaries of two headers with different centers.
C5_Witness ==
    /\ Len(column_boundaries) = 2
    /\ column_boundaries[1].header_center < column_boundaries[2].header_center

\* all words of all groups of the dict, one group after the other
RECURSIVE GroupedWords(_)
GroupedWords(groups) ==
    IF groups = <<>> THEN <<>> ELSE groups[1][2] \o GroupedWords(Tail(groups))

\* C6: _extract_row_data assigns every word of the row to exactly one column
\* (no word dropped, none in two cells), and a word whose center_x is in no
\* boundary interval goes to a boundary with the nearest header_center.
C6_EveryWordInOneColumn ==
    extracted_row > 0 =>
        LET row_words == rows[extracted_row].words
            grouped == GroupedWords(column_word_groups)
        IN  /\ Len(grouped) = Len(row_words)
            /\ \A i \in 1..Len(row_words) : Count(row_words[i], grouped) = Count(row_words[i], row_words)
            /\ \A g \in 1..Len(column_word_groups) :
                  \A i \in 1..Len(column_word_groups[g][2]) :
                      \E b \in 1..Len(column_boundaries) :
                          /\ column_boundaries[b].header = column_word_groups[g][1]
                          /\ BelongsTo(column_boundaries[b], column_word_groups[g][2][i])

\* C6 witness: a row was extracted that holds a word outside every interval.
C6_Witness ==
    /\ extracted_row > 0
    /\ \E i \in 1..Len(rows[extracted_row].words) :
          \A b \in 1..Len(column_boundaries) :
              ~Covers(column_boundaries[b], rows[extracted_row].words[i])

=============================================================================
